---- MODULE Spec2Model ----
(***************************************************************************)
(* Verification model of the real-time event subsystem and the processing *)
(* pipeline of polygon-editor-back.                                        *)
(*                                                                         *)
(*   SpecEvents   : sequencer, job-status projector (workspace_event /     *)
(*                  page_event)                                            *)
(*   SpecBridge   : the Celery -> Channels bridge (publish_event_async)    *)
(*   SpecPipeline : process_workspace_task / process_pending_workspaces    *)
(*   SpecPage     : analyze_region / simple_page_process_task /            *)
(*                  cancel_region_analysis on one page                     *)
(*   SpecOutcome  : mark_succeeded / mark_failed of pdf_processor and the  *)
(*                  notification they send                                 *)
(*   SpecSessions : the WebSocket consumers and their group subscriptions  *)
(*   SpecFunctions: the stateless functions of groups.py, permissions.py   *)
(*                  and envelope.py                                        *)
(*   SpecScenario : a task publishes TASK_STARTED, its producer then       *)
(*                  applies TASK_PROGRESS and TASK_COMPLETED               *)
(*   SpecRegion   : one run of process_page_region next to                 *)
(*                  cancel_region_analysis                                 *)
(*   SpecBatch    : one run of process_pending_workspaces over a batch     *)
(*   SpecStats    : both kinds of publish call and the bridge's counters   *)
(*   SpecProgress : workspace_event with every kind of progress payload    *)
(*   SpecRetry    : process_pending_workspaces run by the interval job,    *)
(*                  tick after tick                                        *)
(*   SpecSync     : concurrent runs of sync_workspace_tree_tto             *)
(***************************************************************************)
EXTENDS Integers, Sequences, FiniteSets, TLC

\* ------------------------------------------------------------------ bounds
NumCallers     == 2      \* concurrent producers calling workspace_event / page_event
NumPublishers  == 1      \* concurrent tasks calling bridge.publish_event_async
MaxCalls       == 2      \* total number of apply / publish calls started
NumTaskWorkers == 2      \* concurrent deliveries of process_workspace_task
MaxRuns        == 2      \* pipeline invocations (task deliveries and scheduler runs)
MaxCancels     == 2      \* cancel_region_analysis requests
NumSessions    == 2      \* WebSocket connections
MaxMessages    == 3      \* connects and client messages handled
BatchSize      == 3      \* workspaces one query of process_pending_workspaces returns

\* ------------------------------------------------------- program constants
FallbackModulus   == 1000000   \* sequencer.py:135
DefaultMaxRetries == 3         \* bridge.py:58
MaxBackoffTenths  == 100       \* bridge.py:121 (10.0 s, in tenths of a second)

\* ------------------------------------------------------------ input sets
Callers    == 1..NumCallers
Publishers == 1..NumPublishers
Procs      == Callers \cup Publishers
WorkspaceTasks == {"42"}             \* task ids used by workspace-level producers
PageTasks      == {"43"}             \* task ids used by page-level producers
WorkspaceId    == "9"                \* str(ws.id): task, project and workspace id of the pipeline's events
Tasks      == WorkspaceTasks \cup PageTasks \cup {WorkspaceId}
NoneVal    == -1                     \* Python None where an int is expected
TimeValues == {1999999, 2000000}     \* int(time.time() * 1000) read by the fallback

EventTypes == {"TASK_QUEUED", "TASK_STARTED", "TASK_PROGRESS",
               "TASK_COMPLETED", "TASK_FAILED", "NOTIFICATION"}

\* Python values that occur in payloads, tagged by their type
PyNone    == [t |-> "none"]
PyStr(s)  == [t |-> "str", s |-> s]
PyInt(n)  == [t |-> "int", n |-> n]
\* a float, held as its number of tenths
PyFloat(tenths) == [t |-> "float", tenths |-> tenths]

PayloadKeys == {"pipeline_step", "step", "pipeline_progress", "progress",
                "page_id", "page_number", "workspace_id"}

EmptyPayload == [k \in PayloadKeys |-> PyNone]

\* the events producers emit: event type with the payload that goes with it
PayloadLoad   == [EmptyPayload EXCEPT !["pipeline_step"] = PyStr(" load_pdf "),
                                      !["pipeline_progress"] = PyInt(50)]
PayloadRender == [EmptyPayload EXCEPT !["step"] = PyStr("render"),
                                      !["pipeline_progress"] = PyInt(0),
                                      !["progress"] = PyInt(150)]
PayloadOdd    == [EmptyPayload EXCEPT !["pipeline_step"] = PyStr(""),
                                      !["progress"] = PyStr("half")]
PayloadDone   == [EmptyPayload EXCEPT !["pipeline_step"] = PyStr("finished"),
                                      !["pipeline_progress"] = PyInt(100)]
\* payloads whose progress is inside and outside 0..100, negative, a float,
\* missing, or not a number
ProgressPayloads ==
  { EmptyPayload, PayloadLoad, PayloadRender, PayloadOdd, PayloadDone,
    [EmptyPayload EXCEPT !["progress"] = PyInt(-5)],
    [EmptyPayload EXCEPT !["pipeline_progress"] = PyFloat(995), !["progress"] = PyInt(7)],
    [EmptyPayload EXCEPT !["pipeline_progress"] = PyStr(""), !["progress"] = PyFloat(-5)] }
ApplyInputs ==
  { [event_type |-> "TASK_PROGRESS",  payload |-> PayloadLoad],
    [event_type |-> "TASK_COMPLETED", payload |-> PayloadDone],
    [event_type |-> "TASK_FAILED",    payload |-> PayloadRender],
    [event_type |-> "NOTIFICATION",   payload |-> PayloadOdd] }
\* the events the page-level producers emit
PageInputs ==
  { [event_type |-> "TASK_PROGRESS",  payload |-> PayloadLoad],
    [event_type |-> "TASK_FAILED",    payload |-> PayloadRender] }

\* ------------------------------------------------------------ pure helpers
Min(a, b) == IF a < b THEN a ELSE b
Max(a, b) == IF a > b THEN a ELSE b

\* Python truthiness and `a or b`
Truthy(v) == \/ (v.t = "int" /\ v.n # 0)
             \/ (v.t = "float" /\ v.tenths # 0)
             \/ (v.t = "str" /\ v.s # "")

\* int(x) of an int or a float: truncation towards zero
IntOf(v) ==
  IF v.t = "int" THEN v.n
  ELSE IF v.tenths >= 0 THEN v.tenths \div 10 ELSE -((-v.tenths) \div 10)
PyOr(a, b) == IF Truthy(a) THEN a ELSE b

\* str.strip() on the strings of the model
Strip(s) == IF s = " load_pdf " THEN "load_pdf" ELSE s

\* str(x) for an int or None, and int(s) with its ValueError (a leading
\* zero is accepted: int("07") is 7)
IntLits == 0..9
StrOf(u) == IF u = NoneVal THEN "None" ELSE ToString(u)
ParseInt(s) ==
  IF \E n \in IntLits : s \in {ToString(n), "0" \o ToString(n)}
  THEN [ok |-> TRUE, n |-> CHOOSE n \in IntLits : s \in {ToString(n), "0" \o ToString(n)}]
  ELSE [ok |-> FALSE, n |-> 0]

\* notifier._map_event_to_state
_map_event_to_stateNoSuccess(event_type) ==
  IF event_type = "TASK_FAILED" THEN "FAILURE"
  ELSE IF event_type \in {"TASK_STARTED", "TASK_PROGRESS", "TASK_COMPLETED"} THEN "RUNNING"
  ELSE "PENDING"
_map_event_to_state(event_type) ==
  IF event_type = "TASK_COMPLETED" THEN "SUCCESS"
  ELSE IF event_type = "TASK_FAILED" THEN "FAILURE"
  ELSE IF event_type \in {"TASK_STARTED", "TASK_PROGRESS"} THEN "RUNNING"
  ELSE "PENDING"

\* notifier: step = (payload.get("pipeline_step") or payload.get("step") or state.value).strip()
StepOf(payload, state) ==
  Strip(PyOr(PyOr(payload["pipeline_step"], payload["step"]), PyStr(state)).s)

\* notifier: progress_raw / isinstance / clamp
ProgressOfUnclamped(payload) ==
  LET progress_raw == PyOr(payload["pipeline_progress"], payload["progress"])
  IN  IF progress_raw.t \in {"int", "float"}
      THEN IntOf(progress_raw)
      ELSE 0
ProgressOf(payload) ==
  LET progress_raw == PyOr(payload["pipeline_progress"], payload["progress"])
  IN  IF progress_raw.t \in {"int", "float"}
      THEN Max(0, Min(100, IntOf(progress_raw)))
      ELSE 0

\* dict.update: keys present in the payload overwrite, the others stay
MetaUpdate(meta, payload) ==
  [k \in PayloadKeys |-> IF payload[k] # PyNone THEN payload[k] ELSE meta[k]]

\* sequencer._fallback_sequence
_fallback_sequence(nowMs) == nowMs % FallbackModulus

\* redis INCR: the new value of the key, which is also the value returned
IncrLost(c) == IF c = 0 THEN 1 ELSE c
Incr(c) == c + 1

\* the sequence gate of workspace_event / page_event (notifier.py:80, 191)
StaleWriteStrict(seq, stored) == seq < stored
StaleWriteNever(seq, stored) == FALSE
StaleWriteInverted(seq, stored) == seq > stored
StaleWrite(seq, stored) == seq <= stored

\* ------------------------------------------------------------------ state
VARIABLES
  counter,      \* redis key seq:task:<task_id>, 0 when the key is absent
  jobStatus,    \* JobStatus table: task_id -> row or NoRow
  pc,           \* position of every caller inside its call
  call,         \* arguments, locals and result of the call in progress
  callsMade,    \* number of calls started so far
  channelLayer, \* bridge.channel_layer: "configured" or "none"
  stats,        \* bridge._publish_stats
  issued,       \* per task: the values INCR has returned, in order
  top,          \* per task: seq/state/step/pct of the calls that drew the highest seq
  ws,           \* the Workspace row
  lockHeld,     \* cache key proc:ws:<id>
  wpc,          \* position of every pipeline worker
  wloc,         \* locals of every pipeline worker
  runs,         \* number of pipeline invocations started so far
  page,         \* the PageImage row
  ppc,          \* position of the page task, the views and the canceller
  ploc,         \* locals of the page task and of the views
  producer,     \* per caller: the mark_* function of pdf_processor it is inside
  subs,         \* channel layer: group name -> the sessions added to it
  tracked,      \* redis sets group_members:<group>: group name -> user ids
  sessions,     \* the WebSocket consumers: user, group_memberships, close code
  handled,      \* number of connects and client messages handled so far
  probe,        \* the last call of a pure function: its arguments and result
  region,       \* the run of process_page_region: position and events emitted
  batch,        \* the runs of process_pending_workspaces over several workspaces
  sync          \* sync_workspace_tree_tto: the row's sync columns, the remote
                \* projects and the runs

seqVars  == <<counter, issued, top>>
evVars   == <<seqVars, jobStatus, pc, call, callsMade, channelLayer, stats>>
pipeVars == <<ws, lockHeld, wpc, wloc, runs>>
pageVars == <<page, ppc, ploc>>
restVars == <<producer, subs, tracked, sessions, handled, probe>>
moreVars == <<region, batch, sync>>
vars     == <<evVars, pipeVars, pageVars, restVars, moreVars>>

NoRow  == [absent |-> TRUE]
NoCall == [op |-> "none"]

RowExists(t) == jobStatus[t] # NoRow

ApplyOps == {"workspace_event", "page_event"}

\* the identifiers the producers of a task pass along with every event:
\* workspace-level producers pass user 3 and workspace "9"; page-level
\* producers pass a workspace without owner (ws.user_id None) and page 5
NoPageArgs == [page_id |-> PyNone, page_number |-> PyNone, workspace_id |-> PyNone]
WorkspaceArgs == [NoPageArgs EXCEPT !.workspace_id = PyStr("9")]
PageArgs == [page_id |-> PyInt(5), page_number |-> PyInt(2), workspace_id |-> PyStr("9")]
WorkspaceUser == 3
PageUser == NoneVal

\* arguments of publish_event_async: user_id, project_id, workspace_id
PublishInputs ==
  { [event_type |-> "TASK_STARTED",  user_id |-> 3,       project_id |-> "9", args |-> WorkspaceArgs],
    [event_type |-> "TASK_PROGRESS", user_id |-> NoneVal, project_id |-> "",  args |-> NoPageArgs],
    [event_type |-> "NOTIFICATION",  user_id |-> NoneVal, project_id |-> "9", args |-> NoPageArgs] }

\* notifier.py:156-162: page_event writes its page arguments into the payload
PagePayload(payload, a) ==
  [payload EXCEPT
     !["page_id"]      = IF a.page_id # PyNone THEN PyStr(ToString(a.page_id.n)) ELSE @,
     !["page_number"]  = IF a.page_number # PyNone THEN a.page_number ELSE @,
     !["workspace_id"] = IF a.workspace_id # PyNone THEN a.workspace_id ELSE @]

NewCall(op, ev, t, proj, u, payload, a, maxr) ==
  [ op |-> op, event_type |-> ev, task_id |-> t, project_id |-> proj,
    user_id |-> u, payload |-> payload, args |-> a, max_retries |-> maxr,
    seq |-> 0, fallback |-> FALSE, created |-> FALSE, stale |-> FALSE,
    persisted |-> FALSE, dispatched |-> FALSE, envelope |-> FALSE,
    success |-> FALSE, error |-> "", retry_count |-> 0,
    attempts |-> 0, sends |-> 0, sleeps |-> 0, counted |-> 0,
    allThrew |-> TRUE, emptySet |-> FALSE ]

\* ------------------------------------------------------- groups.py
GroupTarget(name, type, entity, perms, proj) ==
  [ group_name |-> name, group_type |-> type, entity_id |-> entity,
    permissions_required |-> perms, project_id |-> proj ]

get_user_groups(user_id) ==
  << GroupTarget(<<"user", StrOf(user_id)>>, "user", <<StrOf(user_id)>>,
                 <<"user_access">>, "") >>

get_project_groups(project_id, user_id) ==
  << GroupTarget(<<"project", project_id>>, "project", <<project_id>>,
                 <<"project_member", "user_access">>, ""),
     GroupTarget(<<"project", project_id, "user", StrOf(user_id)>>, "project_user",
                 <<project_id, StrOf(user_id)>>,
                 <<"project_member", "user_access">>, "") >>

get_job_groups(task_id, project_id, user_id) ==
  << GroupTarget(<<"job", task_id>>, "job", <<task_id>>,
                 <<"job_access", "project_member">>, project_id),
     GroupTarget(<<"project", project_id, "job", task_id>>, "project_job",
                 <<project_id, task_id>>,
                 <<"job_access", "project_member">>, project_id) >>

get_workspace_groups(workspace_id, user_id) ==
  << GroupTarget(<<"workspace", workspace_id>>, "workspace", <<workspace_id>>,
                 <<"workspace_member", "user_access">>, ""),
     GroupTarget(<<"workspace", workspace_id, "user", StrOf(user_id)>>, "workspace_user",
                 <<workspace_id, StrOf(user_id)>>,
                 <<"workspace_member", "user_access">>, "") >>

get_page_groups(page_id, project_id) ==
  << GroupTarget(<<"page", page_id>>, "page", <<page_id>>,
                 <<"page_access", "project_member">>, project_id),
     GroupTarget(<<"project", project_id, "page", page_id>>, "project_page",
                 <<project_id, page_id>>,
                 <<"page_access", "project_member">>, project_id) >>

\* workspace_id, project_id and page_id are "" when None or empty (both are
\* falsy); page_id is accepted and not used
compute_groups_for_eventWithPages(event_type, task_id, project_id, user_id, workspace_id, page_id) ==
  get_user_groups(user_id)
    \o (IF project_id # "" THEN get_project_groups(project_id, user_id) ELSE <<>>)
    \o (IF task_id # "" THEN get_job_groups(task_id, project_id, user_id) ELSE <<>>)
    \o (IF workspace_id # "" THEN get_workspace_groups(workspace_id, user_id) ELSE <<>>)
    \o (IF page_id # "" THEN get_page_groups(page_id, project_id) ELSE <<>>)
compute_groups_for_event(event_type, task_id, project_id, user_id, workspace_id, page_id) ==
  get_user_groups(user_id)
    \o (IF project_id # "" THEN get_project_groups(project_id, user_id) ELSE <<>>)
    \o (IF task_id # "" THEN get_job_groups(task_id, project_id, user_id) ELSE <<>>)
    \o (IF workspace_id # "" THEN get_workspace_groups(workspace_id, user_id) ELSE <<>>)

\* ------------------------------------------------------- permissions.py
check_user_accessAny(user_id, target_user_id) == TRUE
check_user_access(user_id, target_user_id) == user_id = target_user_id
check_project_member(user_id, project_id) == TRUE
check_workspace_member(user_id, workspace_id) == TRUE
check_job_access(user_id, task_id, project_id) == check_project_member(user_id, project_id)

\* `if not project_id` (permissions.py:162-164, 169-171)
MissingProjectNever(project_id) == FALSE
MissingProject(project_id) == project_id = ""

\* int(group_target.entity_id) (permissions.py:145-149) on the parts of the
\* entity id: int() takes digits separated by single underscores ("7_0" is
\* 70) and raises ValueError for anything else
RECURSIVE IntOfEntity(_)
IntOfEntity(e) ==
  IF Len(e) = 0 THEN [ok |-> FALSE, n |-> 0]
  ELSE LET last == ParseInt(e[Len(e)])
           init == IntOfEntity(SubSeq(e, 1, Len(e) - 1))
       IN  IF Len(e) = 1 THEN last
           ELSE [ok |-> init.ok /\ last.ok, n |-> 10 * init.n + last.n]

_check_permission(user_id, permission, g) ==
  IF permission = "user_access" THEN
       IF g.group_type = "user"
       THEN LET parsed == IntOfEntity(g.entity_id)
            IN  parsed.ok /\ check_user_access(user_id, parsed.n)
       ELSE TRUE
  ELSE IF permission = "project_member" THEN check_project_member(user_id, g.entity_id)
  ELSE IF permission = "workspace_member" THEN check_workspace_member(user_id, g.entity_id)
  ELSE IF permission \in {"job_access", "page_access"} THEN
       IF MissingProject(g.project_id) THEN FALSE
       ELSE check_job_access(user_id, g.entity_id, g.project_id)
  ELSE IF permission = "event_access" THEN TRUE
  ELSE FALSE

validate_group_access(user_id, g) ==
  \A i \in 1..Len(g.permissions_required) :
     _check_permission(user_id, g.permissions_required[i], g)

filter_accessible_groups(user_id, groups) ==
  SelectSeq(groups, LAMBDA g : validate_group_access(user_id, g))

\* GroupManager.get_group_info with validate_group_name (groups.py:185-230);
\* a name is the sequence of the parts that split('_') gives, "a b" is a part
\* with a character outside the valid set; the result is None (ok = FALSE)
\* for an invalid name and for a name of fewer than two parts
get_group_info(group_name) ==
  IF \/ Len(group_name) < 2
     \/ \E i \in 1..Len(group_name) : group_name[i] = "a b"
  THEN [ok |-> FALSE, group_type |-> "", entity_id |-> <<>>]
  ELSE [ok |-> TRUE, group_type |-> Head(group_name), entity_id |-> Tail(group_name)]

\* PermissionChecker._get_required_permissions (permissions.py:264-276)
_get_required_permissions(group_type) ==
  IF group_type = "user" THEN <<"user_access">>
  ELSE IF group_type \in {"project", "project_user"} THEN <<"project_member", "user_access">>
  ELSE IF group_type \in {"job", "project_job"} THEN <<"job_access", "project_member">>
  ELSE IF group_type \in {"workspace", "workspace_user"} THEN <<"workspace_member", "user_access">>
  ELSE IF group_type = "page" THEN <<"page_access", "project_member">>
  ELSE IF group_type = "event_type" THEN <<"event_access">>
  ELSE <<"user_access">>

\* PermissionChecker.can_user_access_group (permissions.py:225-251): the
\* target built from the name has no project_id attribute
can_user_access_group(user_id, group_name) ==
  LET group_info == get_group_info(group_name)
  IN  /\ group_info.ok
      /\ validate_group_access(user_id,
            GroupTarget(group_name, group_info.group_type, group_info.entity_id,
                        _get_required_permissions(group_info.group_type), ""))

\* ------------------------------------------------------- bridge.py
\* What the transport does with the group_send calls of one attempt:
\*   ok          every send succeeds
\*   partial     the first send raises when awaited, the others succeed
\*   await_error every send raises when awaited (collected by gather)
\*   call_error  group_send raises when it is called
SendOutcomes == {"ok", "partial", "await_error", "call_error"}

\* bridge._publish_to_groups: the exceptions of awaited sends are collected
\* (return_exceptions=True) and dropped
SendRaises(outcome) == outcome = "call_error"

\* bridge.publish_envelope_async; n = groups_published
publish_envelope_async(event_user, task_id, project_id, workspace_id, page_id, outcome) ==
  LET groups == compute_groups_for_event("", task_id, project_id, event_user,
                                         workspace_id, page_id)
      accessible == filter_accessible_groups(event_user, groups)
  IN  IF channelLayer = "none" THEN
        [raised |-> FALSE, n |-> 0, sends |-> 0, reached |-> FALSE, empty |-> FALSE]
      ELSE IF Len(accessible) = 0 THEN
        [raised |-> FALSE, n |-> 0, sends |-> 0, reached |-> FALSE, empty |-> TRUE]
      ELSE IF SendRaises(outcome) THEN
        [raised |-> TRUE, n |-> 0, sends |-> 1, reached |-> FALSE, empty |-> FALSE]
      ELSE
        [raised |-> FALSE, n |-> Len(accessible), sends |-> Len(accessible),
         reached |-> (outcome = "ok" \/ (outcome = "partial" /\ Len(accessible) > 1)),
         empty |-> FALSE]

\* bridge._update_stats
_update_statsIgnoringOutcome(st, success) ==
  [ total_published      |-> st.total_published + 1,
    successful_publishes |-> st.successful_publishes + 1,
    failed_publishes     |-> st.failed_publishes ]
_update_stats(st, success) ==
  [ total_published      |-> st.total_published + 1,
    successful_publishes |-> st.successful_publishes + (IF success THEN 1 ELSE 0),
    failed_publishes     |-> st.failed_publishes + (IF success THEN 0 ELSE 1) ]

\* bridge.py:121, in tenths of a second
BackoffDelay(retry_count) == Min(10 * (2 ^ retry_count) + retry_count, MaxBackoffTenths)

\* ------------------------------------------------------- actions: events
InitEvents ==
  /\ counter = [t \in Tasks |-> 0]
  /\ jobStatus = [t \in Tasks |-> NoRow]
  /\ pc = [c \in Procs |-> "idle"]
  /\ call = [c \in Procs |-> NoCall]
  /\ callsMade = 0
  /\ channelLayer \in {"configured", "none"}
  /\ stats = [total_published |-> 0, successful_publishes |-> 0, failed_publishes |-> 0]
  /\ issued = [t \in Tasks |-> <<>>]
  /\ top = [t \in Tasks |-> {}]

\* a producer calls workspace_event(...) (notifier.py:35-51)
CallWorkspaceEvent(c) ==
  /\ pc[c] \in {"idle", "done"}
  /\ callsMade < MaxCalls
  /\ \E in \in ApplyInputs, t \in WorkspaceTasks :
        call' = [call EXCEPT ![c] =
                   NewCall("workspace_event", in.event_type, t, "9", WorkspaceUser,
                           in.payload, WorkspaceArgs, 0)]
  /\ pc' = [pc EXCEPT ![c] = "seq"]
  /\ callsMade' = callsMade + 1
  /\ UNCHANGED <<seqVars, jobStatus, channelLayer, stats, pipeVars, pageVars, restVars, moreVars>>

\* workspace_event(...) with a payload that exercises the progress clamp
\* (notifier.py:35-59)
CallWithProgress(c) ==
  /\ pc[c] \in {"idle", "done"}
  /\ callsMade < MaxCalls
  /\ \E payload \in ProgressPayloads, t \in WorkspaceTasks :
        call' = [call EXCEPT ![c] =
                   NewCall("workspace_event", "TASK_PROGRESS", t, "9", WorkspaceUser,
                           payload, WorkspaceArgs, 0)]
  /\ pc' = [pc EXCEPT ![c] = "seq"]
  /\ callsMade' = callsMade + 1
  /\ UNCHANGED <<seqVars, jobStatus, channelLayer, stats, pipeVars, pageVars, restVars, moreVars>>

\* a producer calls page_event(...) (notifier.py:120-162)
CallPageEvent(c) ==
  /\ pc[c] \in {"idle", "done"}
  /\ callsMade < MaxCalls
  /\ \E in \in PageInputs, t \in PageTasks :
        call' = [call EXCEPT ![c] =
                   NewCall("page_event", in.event_type, t, "9", PageUser,
                           PagePayload(in.payload, PageArgs), PageArgs, 0)]
  /\ pc' = [pc EXCEPT ![c] = "seq"]
  /\ callsMade' = callsMade + 1
  /\ UNCHANGED <<seqVars, jobStatus, channelLayer, stats, pipeVars, pageVars, restVars, moreVars>>

\* a task calls bridge.publish_event_async(...) (bridge.py:48-64)
CallPublishEventAsync(c) ==
  /\ pc[c] \in {"idle", "done"}
  /\ callsMade < MaxCalls
  /\ \E in \in PublishInputs, t \in WorkspaceTasks :
        call' = [call EXCEPT ![c] =
                   NewCall("publish_event_async", in.event_type, t, in.project_id,
                           in.user_id, EmptyPayload, in.args, DefaultMaxRetries)]
  /\ pc' = [pc EXCEPT ![c] = "seq"]
  /\ callsMade' = callsMade + 1
  /\ UNCHANGED <<seqVars, jobStatus, channelLayer, stats, pipeVars, pageVars, restVars, moreVars>>

\* the calls that hold the highest sequence number drawn for a task so far
TopAfter(old, h) ==
  IF old = {} \/ (\A o \in old : h.seq > o.seq) THEN {h}
  ELSE IF \E o \in old : h.seq = o.seq THEN old \cup {h}
  ELSE old

\* SequenceManager.get_next_sequence (sequencer.py:34-55), called at
\* notifier.py:53, notifier.py:164 and bridge.py:66; the counter store either
\* answers the INCR, or is unavailable for this call (redis_client is None, or
\* incr raises) and the time-based fallback is returned
get_next_sequence(c) ==
  /\ pc[c] = "seq"
  /\ \E redisUp \in BOOLEAN, tm \in TimeValues :
     LET t   == call[c].task_id
         seq == IF redisUp THEN Incr(counter[t]) ELSE _fallback_sequence(tm)
         st  == _map_event_to_state(call[c].event_type)
     IN  /\ counter' = IF redisUp THEN [counter EXCEPT ![t] = Incr(counter[t])] ELSE counter
         /\ issued' = IF redisUp THEN [issued EXCEPT ![t] = Append(@, seq)] ELSE issued
         /\ call' = [call EXCEPT ![c].seq = seq, ![c].fallback = ~redisUp]
         /\ IF call[c].op \in ApplyOps
            THEN /\ top' = [top EXCEPT ![t] =
                              TopAfter(@, [seq |-> seq, state |-> st,
                                           step |-> StepOf(call[c].payload, st),
                                           pct |-> ProgressOf(call[c].payload)])]
                 /\ pc' = [pc EXCEPT ![c] = "txn"]
            ELSE /\ top' = top
                 /\ pc' = [pc EXCEPT ![c] = "attempt"]
  /\ UNCHANGED <<jobStatus, callsMade, channelLayer, stats, pipeVars, pageVars, restVars, moreVars>>

\* `user_id if user_id else None` (notifier.py:75, 89)
RowUser(u) == IF u = NoneVal \/ u = 0 THEN NoneVal ELSE u

\* the transaction of workspace_event / page_event
\* (notifier.py:66-102 and 177-213): select_for_update + get_or_create,
\* the sequence gate, the update and the commit, under the row lock
ApplyTransaction(c) ==
  /\ pc[c] = "txn"
  /\ LET t        == call[c].task_id
         seq      == call[c].seq
         payload  == call[c].payload
         state    == _map_event_to_state(call[c].event_type)
         step     == StepOf(payload, state)
         progress == ProgressOf(payload)
         created  == ~RowExists(t)
         defaults == [state |-> state, pct |-> progress, step |-> step,
                      meta_json |-> payload,
                      project_id |-> ParseInt(call[c].project_id).n,
                      user_id |-> RowUser(call[c].user_id), seq |-> seq]
         job_status == IF created THEN defaults ELSE jobStatus[t]
     IN  IF StaleWrite(seq, job_status.seq)
         THEN /\ jobStatus' = [jobStatus EXCEPT ![t] = job_status]
              /\ call' = [call EXCEPT ![c].created = created, ![c].stale = ~created,
                                      ![c].persisted = FALSE, ![c].dispatched = FALSE,
                                      ![c].envelope = FALSE]
              /\ pc' = [pc EXCEPT ![c] = "done"]
         ELSE /\ jobStatus' = [jobStatus EXCEPT ![t] =
                    [state |-> state, pct |-> progress, step |-> step,
                     meta_json |-> MetaUpdate(job_status.meta_json, payload),
                     project_id |-> ParseInt(call[c].project_id).n,
                     user_id |-> RowUser(call[c].user_id), seq |-> seq]]
              /\ call' = [call EXCEPT ![c].created = created, ![c].persisted = TRUE]
              /\ pc' = [pc EXCEPT ![c] = "publish"]
  /\ UNCHANGED <<seqVars, callsMade, channelLayer, stats, pipeVars, pageVars, restVars, moreVars>>

\* workspace_id or project_id_str (notifier.py:115, 233)
RouteWorkspace(cl) ==
  IF cl.args.workspace_id # PyNone THEN cl.args.workspace_id.s ELSE cl.project_id
\* workspace_id argument of publish_event_async, "" when None
PublishWorkspace(cl) ==
  IF cl.args.workspace_id # PyNone THEN cl.args.workspace_id.s ELSE ""
\* page_id of the envelope: str(page_id), "" for None (notifier.py:230, bridge.py:72)
EnvelopePage(cl) ==
  IF cl.args.page_id # PyNone THEN ToString(cl.args.page_id.n) ELSE ""
\* user_id_val = user_id or 0 (notifier.py:49, 154)
EnvelopeUser(u) == IF u = NoneVal THEN 0 ELSE u

\* envelope construction and bridge.publish_event_sync
\* (notifier.py:104-117, 215-235; bridge.py:197-241)
PublishEventSync(c) ==
  /\ pc[c] = "publish"
  /\ \E outcome \in SendOutcomes :
       LET cl == call[c]
           r  == publish_envelope_async(EnvelopeUser(cl.user_id), cl.task_id,
                                        cl.project_id, RouteWorkspace(cl),
                                        EnvelopePage(cl), outcome)
           success == ~r.raised /\ r.n > 0
       IN  /\ stats' = _update_stats(stats, success)
           /\ call' = [call EXCEPT ![c].envelope = TRUE, ![c].dispatched = success,
                                   ![c].sends = r.sends, ![c].counted = 1]
  /\ pc' = [pc EXCEPT ![c] = "done"]
  /\ UNCHANGED <<seqVars, jobStatus, callsMade, channelLayer, pipeVars, pageVars, restVars, moreVars>>

\* one pass of the retry loop of publish_event_async (bridge.py:79-145)
PublishAttempt(c) ==
  /\ pc[c] = "attempt"
  /\ \E outcome \in SendOutcomes :
       LET cl == call[c]
           r  == publish_envelope_async(cl.user_id, cl.task_id, cl.project_id,
                                        PublishWorkspace(cl), EnvelopePage(cl), outcome)
           threw == cl.allThrew /\ outcome \in {"await_error", "call_error"}
       IN  IF ~r.raised
           THEN \* bridge.py:86-114
                /\ stats' = _update_stats(stats, r.n > 0)
                /\ call' = [call EXCEPT ![c].success = (r.n > 0),
                                        ![c].error = IF r.n > 0 THEN "" ELSE "no_groups",
                                        ![c].attempts = @ + 1,
                                        ![c].sends = @ + r.sends,
                                        ![c].counted = @ + 1,
                                        ![c].allThrew = threw,
                                        ![c].emptySet = r.empty]
                /\ pc' = [pc EXCEPT ![c] = "done"]
           ELSE \* bridge.py:116-145
                LET rc == cl.retry_count + 1
                IN  IF rc <= cl.max_retries
                    THEN /\ call' = [call EXCEPT ![c].retry_count = rc,
                                                 ![c].error = "exc",
                                                 ![c].attempts = @ + 1,
                                                 ![c].sends = @ + r.sends,
                                                 ![c].allThrew = threw]
                         /\ pc' = [pc EXCEPT ![c] = "sleep"]
                         /\ UNCHANGED stats
                    ELSE /\ stats' = _update_stats(stats, FALSE)
                         /\ call' = [call EXCEPT ![c].retry_count = rc,
                                                 ![c].success = FALSE,
                                                 ![c].error = "exc",
                                                 ![c].attempts = @ + 1,
                                                 ![c].sends = @ + r.sends,
                                                 ![c].counted = @ + 1,
                                                 ![c].allThrew = threw]
                         /\ pc' = [pc EXCEPT ![c] = "done"]
  /\ UNCHANGED <<seqVars, jobStatus, callsMade, channelLayer, pipeVars, pageVars, restVars, moreVars>>

\* await asyncio.sleep(delay) (bridge.py:120-129)
BackoffSleep(c) ==
  /\ pc[c] = "sleep"
  /\ BackoffDelay(call[c].retry_count) > 0
  /\ call' = [call EXCEPT ![c].sleeps = @ + 1]
  /\ pc' = [pc EXCEPT ![c] = "attempt"]
  /\ UNCHANGED <<seqVars, jobStatus, callsMade, channelLayer, stats, pipeVars, pageVars, restVars, moreVars>>

\* producers applying events through the job-status projector
NextEvents ==
  \/ \E c \in Callers : CallWorkspaceEvent(c)
  \/ \E c \in Callers : CallPageEvent(c)
  \/ \E c \in Callers : get_next_sequence(c)
  \/ \E c \in Callers : ApplyTransaction(c)
  \/ \E c \in Callers : PublishEventSync(c)

\* tasks publishing through the bridge
NextBridge ==
  \/ \E c \in Publishers : CallPublishEventAsync(c)
  \/ \E c \in Publishers : get_next_sequence(c)
  \/ \E c \in Publishers : PublishAttempt(c)
  \/ \E c \in Publishers : BackoffSleep(c)

\* ============================================== processing pipeline
\* process_workspace_task deliveries are the workers 1..NumTaskWorkers,
\* the APScheduler job process_pending_workspaces is worker 0
Scheduler   == 0
TaskWorkers == 1..NumTaskWorkers
PipeWorkers == {Scheduler} \cup TaskWorkers

\* page counts of the uploaded document (an image counts as one page)
PageCounts == {0, 1, 2, 7}

\* models.Workspace: the columns the pipeline writes, with their defaults
NewWorkspace ==
  [ pipeline_state |-> "idle", pipeline_step |-> "queued",
    pipeline_progress |-> 0, status |-> "pending" ]

\* locals of a worker: its Workspace instance, the loop variables of
\* process_workspace, the value the task returned, and whether the row was
\* IDLE when the task was sent
NoLocals ==
  [ ws |-> NewWorkspace, pages_total |-> 0, i |-> 0, auto_extract |-> FALSE,
    result |-> "", sentWhileIdle |-> FALSE ]

\* int(round(num / den)): Python rounds a half to the even neighbour
PyRound(num, den) ==
  LET q == num \div den
      r == num % den
  IN  IF 2 * r < den THEN q
      ELSE IF 2 * r > den THEN q + 1
      ELSE IF q % 2 = 0 THEN q ELSE q + 1

\* progress of page i of pages_total: int(round(base / pages_total + page_fraction))
PageProgress(base, i, pages_total) == PyRound(base + (i - 1) * 90, pages_total)

\* pdf_processor.mark_step: the instance after the assignments; save() writes
\* exactly these four columns
mark_step(local, step, state, progress) ==
  [ pipeline_step |-> step, pipeline_state |-> state, pipeline_progress |-> progress,
    status |-> IF state = "running" THEN "processing"
               ELSE IF state = "succeeded" THEN "ready"
               ELSE IF state = "failed" THEN "failed"
               ELSE local.status ]

\* pdf_processor.mark_failed (progress defaults to 0)
mark_failed(local, step) ==
  [ pipeline_step |-> step, pipeline_state |-> "failed", pipeline_progress |-> 0,
    status |-> "failed" ]

\* pdf_processor.mark_succeeded: the columns it saves
mark_succeeded(local) ==
  [ pipeline_step |-> "finished", pipeline_state |-> "succeeded",
    pipeline_progress |-> 100, status |-> "ready" ]

\* models.PipelineStep in the order of its declaration; StepRank is the
\* position of a step in it
PipelineSteps == <<"queued", "load_pdf", "render_pages", "tile_pages",
                   "extract_polygons", "postprocess", "finished">>
StepRank(step) == CHOOSE k \in 1..Len(PipelineSteps) : PipelineSteps[k] = step

\* tasks.py:78-80: the rows the conditional UPDATE of the claim matches
Eligible(row) ==
  \/ row.pipeline_state \in {"idle", "failed"}
  \/ row.pipeline_step = "queued"

\* pdf_processor.py:318: process_workspace returns at once for these instances
GuardSkips(local) ==
  /\ local.pipeline_state \notin {"idle", "failed"}
  /\ local.pipeline_step # "queued"

\* the positions inside process_workspace after its guard
ProcessingPcs == {"open", "render", "derive", "tiles", "post", "succeed", "notify"}
Processing(w) == wpc[w] \in ProcessingPcs

\* process_workspace returns: the task goes on to return "ok" and to its
\* finally block, the scheduler run is over; the locals are gone
Returned(w) == IF w = Scheduler THEN "done" ELSE "release"
LocalsAfter(w, loc) ==
  IF w = Scheduler THEN NoLocals
  ELSE [NoLocals EXCEPT !.result = "ok", !.sentWhileIdle = loc.sentWhileIdle]

\* the position after the guard of process_workspace
AfterGuard(w, local) == IF GuardSkips(local) THEN Returned(w) ELSE "open"

InitPipeline ==
  /\ ws = NewWorkspace
  /\ lockHeld = FALSE
  /\ wpc = [w \in PipeWorkers |-> "idle"]
  /\ wloc = [w \in PipeWorkers |-> NoLocals]
  /\ runs = 0

\* a delivery of process_workspace_task starts (sent by the upload view, a
\* management command or dispatch_pending_workspaces)
Invoke(w) ==
  /\ w \in TaskWorkers
  /\ wpc[w] \in {"idle", "done"}
  /\ runs < MaxRuns
  /\ runs' = runs + 1
  /\ wpc' = [wpc EXCEPT ![w] = "start"]
  /\ wloc' = [wloc EXCEPT ![w] =
                [NoLocals EXCEPT !.sentWhileIdle = (ws.pipeline_state = "idle")]]
  /\ UNCHANGED <<ws, lockHeld, evVars, pageVars, restVars, moreVars>>

\* tasks.py:69-73: cache.add(lock_key, "1", timeout=LOCK_TTL)
CacheAdd(w) ==
  /\ wpc[w] = "start"
  /\ IF lockHeld
     THEN /\ wpc' = [wpc EXCEPT ![w] = "done"]
          /\ wloc' = [wloc EXCEPT ![w].result = "locked"]
          /\ UNCHANGED lockHeld
     ELSE /\ lockHeld' = TRUE
          /\ wpc' = [wpc EXCEPT ![w] = "claim"]
          /\ UNCHANGED wloc
  /\ UNCHANGED <<ws, runs, evVars, pageVars, restVars, moreVars>>

\* the cache drops the key when its timeout (LOCK_TTL) has passed
LockExpire ==
  /\ lockHeld
  /\ lockHeld' = FALSE
  /\ UNCHANGED <<ws, wpc, wloc, runs, evVars, pageVars, restVars, moreVars>>

\* tasks.py:77-100: the conditional UPDATE that claims the row
Claim(w) ==
  /\ wpc[w] = "claim"
  /\ IF Eligible(ws)
     THEN /\ ws' = [ pipeline_state |-> "running", pipeline_step |-> "queued",
                     pipeline_progress |-> 1, status |-> "processing" ]
          /\ wpc' = [wpc EXCEPT ![w] = "load"]
          /\ UNCHANGED wloc
     ELSE /\ wloc' = [wloc EXCEPT ![w].result = "skip"]
          /\ wpc' = [wpc EXCEPT ![w] = "release"]
          /\ UNCHANGED ws
  /\ UNCHANGED <<lockHeld, runs, evVars, pageVars, restVars, moreVars>>

\* tasks.py:103-109 and pdf_processor.py:318-320: load the instance and
\* enter process_workspace, whose guard looks at the instance
LoadInstance(w) ==
  /\ wpc[w] = "load"
  /\ wpc' = [wpc EXCEPT ![w] = AfterGuard(w, ws)]
  /\ wloc' = [wloc EXCEPT ![w] = IF GuardSkips(ws) THEN LocalsAfter(w, @)
                                 ELSE [@ EXCEPT !.ws = ws]]
  /\ UNCHANGED <<ws, lockHeld, runs, evVars, pageVars, restVars, moreVars>>

\* tasks.py:118-119: finally: cache.delete(lock_key)
Release(w) ==
  /\ wpc[w] = "release"
  /\ lockHeld' = FALSE
  /\ wpc' = [wpc EXCEPT ![w] = "done"]
  /\ UNCHANGED <<ws, wloc, runs, evVars, pageVars, restVars, moreVars>>

\* pdf_processor.py:504-506: a scheduler run evaluates its query
process_pending_workspaces ==
  /\ wpc[Scheduler] \in {"idle", "done"}
  /\ runs < MaxRuns
  /\ runs' = runs + 1
  /\ IF ws.pipeline_state \in {"idle", "failed"}
     THEN /\ wloc' = [wloc EXCEPT ![Scheduler] = [NoLocals EXCEPT !.ws = ws]]
          /\ wpc' = [wpc EXCEPT ![Scheduler] = "mark"]
     ELSE /\ wloc' = [wloc EXCEPT ![Scheduler] = NoLocals]
          /\ wpc' = [wpc EXCEPT ![Scheduler] = "done"]
  /\ UNCHANGED <<ws, lockHeld, evVars, pageVars, restVars, moreVars>>

\* pdf_processor.py:509-512 and 318-320: the scheduler marks the instance it
\* read RUNNING / QUEUED and enters process_workspace with it
SchedulerMark ==
  /\ wpc[Scheduler] = "mark"
  /\ LET local == wloc[Scheduler].ws
         marked == mark_step(local, "queued", "running", 1)
     IN  IF \/ local.pipeline_step = "queued"
            \/ local.pipeline_state \in {"idle", "failed"}
         THEN /\ ws' = marked
              /\ wpc' = [wpc EXCEPT ![Scheduler] = AfterGuard(Scheduler, marked)]
              /\ wloc' = [wloc EXCEPT ![Scheduler] =
                            IF GuardSkips(marked) THEN NoLocals
                            ELSE [@ EXCEPT !.ws = marked]]
         ELSE /\ wpc' = [wpc EXCEPT ![Scheduler] = AfterGuard(Scheduler, local)]
              /\ wloc' = [wloc EXCEPT ![Scheduler] =
                            IF GuardSkips(local) THEN NoLocals ELSE @]
              /\ UNCHANGED ws
  /\ UNCHANGED <<lockHeld, runs, evVars, pageVars, restVars, moreVars>>

\* a worker writes its instance: save(update_fields=[the four columns])
Save(w, saved, nextPc) ==
  /\ ws' = saved
  /\ wloc' = [wloc EXCEPT ![w].ws = saved]
  /\ wpc' = [wpc EXCEPT ![w] = nextPc]

\* an exception inside process_workspace: mark_failed, then return
Fail(w, step) ==
  /\ ws' = mark_failed(wloc[w].ws, step)
  /\ wloc' = [wloc EXCEPT ![w] = LocalsAfter(w, @)]
  /\ wpc' = [wpc EXCEPT ![w] = Returned(w)]

\* pdf_processor.py:322-347: open the upload; LOAD_PDF at 5 %, or mark_failed
OpenFile(w) ==
  /\ wpc[w] = "open"
  /\ \/ \E n \in PageCounts, ax \in BOOLEAN :
          LET saved == mark_step(wloc[w].ws, "load_pdf", "running", 5)
          IN  /\ ws' = saved
              /\ wloc' = [wloc EXCEPT ![w].ws = saved, ![w].pages_total = n,
                                      ![w].i = IF n = 0 THEN 0 ELSE 1,
                                      ![w].auto_extract = (n > 0 /\ ax)]
              /\ wpc' = [wpc EXCEPT ![w] = IF n = 0 THEN "post" ELSE "render"]
     \/ Fail(w, "load_pdf")
  /\ UNCHANGED <<lockHeld, runs, evVars, pageVars, restVars, moreVars>>

\* pdf_processor.py:369-374: RENDER_PAGES at the start of page i
RenderStart(w) ==
  /\ wpc[w] = "render"
  /\ Save(w, mark_step(wloc[w].ws, "render_pages", "running",
                       PageProgress(30, wloc[w].i, wloc[w].pages_total)), "derive")
  /\ UNCHANGED <<lockHeld, runs, evVars, pageVars, restVars, moreVars>>

\* pdf_processor.py:376-406: render the page and store it, then RENDER_PAGES
\* again; an exception goes to the handler at 492-495
Derive(w) ==
  /\ wpc[w] = "derive"
  /\ \/ Save(w, mark_step(wloc[w].ws, "render_pages", "running",
                          PageProgress(40, wloc[w].i, wloc[w].pages_total)), "tiles")
     \/ Fail(w, wloc[w].ws.pipeline_step)
  /\ UNCHANGED <<lockHeld, runs, evVars, pageVars, restVars, moreVars>>

\* the loop variables after page i: the next page, or the finalisation
AfterPage(loc) == IF loc.i < loc.pages_total THEN "render" ELSE "post"
LoopAdvance(loc) ==
  IF loc.i < loc.pages_total THEN [loc EXCEPT !.i = @ + 1]
  ELSE [loc EXCEPT !.i = 0, !.pages_total = 0, !.auto_extract = FALSE]

\* pdf_processor.py:408-486: tiles, JPEG and thumbnail of page i, then
\* EXTRACT_POLYGONS and the extraction request (its errors are caught inside
\* the loop) when extraction is on
Tiles(w) ==
  /\ wpc[w] = "tiles"
  /\ \/ /\ wloc[w].auto_extract
        /\ LET loc == wloc[w]
               saved == mark_step(loc.ws, "extract_polygons", "running",
                                  PageProgress(50, loc.i, loc.pages_total))
           IN  /\ ws' = saved
               /\ wloc' = [wloc EXCEPT ![w] = LoopAdvance([@ EXCEPT !.ws = saved])]
        /\ wpc' = [wpc EXCEPT ![w] = AfterPage(wloc[w])]
     \/ /\ ~wloc[w].auto_extract
        /\ wpc' = [wpc EXCEPT ![w] = AfterPage(wloc[w])]
        /\ wloc' = [wloc EXCEPT ![w] = LoopAdvance(@)]
        /\ UNCHANGED ws
     \/ Fail(w, wloc[w].ws.pipeline_step)
  /\ UNCHANGED <<lockHeld, runs, evVars, pageVars, restVars, moreVars>>

\* pdf_processor.py:489: POSTPROCESS at 95 %
Postprocess(w) ==
  /\ wpc[w] = "post"
  /\ Save(w, mark_step(wloc[w].ws, "postprocess", "running", 95), "succeed")
  /\ UNCHANGED <<lockHeld, runs, evVars, pageVars, restVars, moreVars>>

\* pdf_processor.py:158-162: mark_succeeded saves FINISHED / SUCCEEDED / 100
Succeed(w) ==
  /\ wpc[w] = "succeed"
  /\ Save(w, mark_succeeded(wloc[w].ws), "notify")
  /\ UNCHANGED <<lockHeld, runs, evVars, pageVars, restVars, moreVars>>

\* pdf_processor.py:164-187: the completion event and notification of
\* mark_succeeded; an exception of theirs goes to the handler at 492-495
NotifyCompleted(w) ==
  /\ wpc[w] = "notify"
  /\ \/ /\ wpc' = [wpc EXCEPT ![w] = Returned(w)]
        /\ wloc' = [wloc EXCEPT ![w] = LocalsAfter(w, @)]
        /\ UNCHANGED ws
     \/ Fail(w, wloc[w].ws.pipeline_step)
  /\ UNCHANGED <<lockHeld, runs, evVars, pageVars, restVars, moreVars>>

NextPipeline ==
  \/ \E w \in TaskWorkers : Invoke(w)
  \/ \E w \in TaskWorkers : CacheAdd(w)
  \/ \E w \in TaskWorkers : Claim(w)
  \/ \E w \in TaskWorkers : LoadInstance(w)
  \/ \E w \in TaskWorkers : Release(w)
  \/ LockExpire
  \/ process_pending_workspaces
  \/ SchedulerMark
  \/ \E w \in PipeWorkers : OpenFile(w)
  \/ \E w \in PipeWorkers : RenderStart(w)
  \/ \E w \in PipeWorkers : Derive(w)
  \/ \E w \in PipeWorkers : Tiles(w)
  \/ \E w \in PipeWorkers : Postprocess(w)
  \/ \E w \in PipeWorkers : Succeed(w)
  \/ \E w \in PipeWorkers : NotifyCompleted(w)

\* ============================================== page region analysis
\* one page, one analyze_region request and the Celery task it sends;
\* cancel_region_analysis requests arrive at any moment
PageMaxRetries == 2      \* tasks.py:126 max_retries of simple_page_process
TaskId == "t1"           \* the id Celery gives the task; "" is None

\* models.PageImage: the columns the analysis writes, with their defaults
NewPage == [extract_status |-> "none", task_id |-> ""]

\* positions of the task: waiting in the broker, inside the function, over
TaskRunningPcs == {"save_id", "claim", "load", "save", "refresh", "region",
                   "handler", "retry"}
TaskInFlightPcs == {"queued"} \cup TaskRunningPcs
TaskOverPcs == {"returned", "killed", "discarded", "gave_up"}

InitPage ==
  /\ page = NewPage
  /\ ppc = [view |-> "idle", task |-> "none", cancel |-> "idle"]
  /\ ploc = [ view |-> NewPage, task |-> NewPage, cancel |-> NewPage,
              retries |-> 0, revoked |-> FALSE, result |-> "",
              cancels |-> 0, canceledInFlight |-> FALSE ]

\* views.py:1651-1652: analyze_region reads the page
AnalyzeRead ==
  /\ ppc.view = "idle"
  /\ ploc' = [ploc EXCEPT !.view = page]
  /\ ppc' = [ppc EXCEPT !.view = "save"]
  /\ UNCHANGED <<page, evVars, pipeVars, restVars, moreVars>>

\* views.py:1654-1658: extract_status = QUEUED; save() writes every column
AnalyzeSaveQueued ==
  /\ ppc.view = "save"
  /\ page' = [ploc.view EXCEPT !.extract_status = "queued"]
  /\ ploc' = [ploc EXCEPT !.view = page']
  /\ ppc' = [ppc EXCEPT !.view = "delay"]
  /\ UNCHANGED <<evVars, pipeVars, restVars, moreVars>>

\* views.py:1681-1695: simple_page_process_task.delay(...); when the broker
\* refuses, the view saves FAILED
AnalyzeDelay ==
  /\ ppc.view = "delay"
  /\ \/ /\ ppc' = [ppc EXCEPT !.view = "set_task", !.task = "queued"]
        /\ UNCHANGED <<page, ploc>>
     \/ /\ page' = [ploc.view EXCEPT !.extract_status = "failed"]
        /\ ploc' = [ploc EXCEPT !.view = page']
        /\ ppc' = [ppc EXCEPT !.view = "done"]
  /\ UNCHANGED <<evVars, pipeVars, restVars, moreVars>>

\* views.py:1688 and models.py:301-305: set_task saves the task id
AnalyzeSetTask ==
  /\ ppc.view = "set_task"
  /\ page' = [page EXCEPT !.task_id = TaskId]
  /\ ploc' = [ploc EXCEPT !.view.task_id = TaskId]
  /\ ppc' = [ppc EXCEPT !.view = "done"]
  /\ UNCHANGED <<evVars, pipeVars, restVars, moreVars>>

\* a worker takes the task message from the broker
TaskDeliver ==
  /\ ppc.task = "queued"
  /\ ppc' = [ppc EXCEPT !.task = "save_id"]
  /\ UNCHANGED <<page, ploc, evVars, pipeVars, restVars, moreVars>>

\* tasks.py:158-167: the task stores its own id
TaskSaveId ==
  /\ ppc.task = "save_id"
  /\ page' = [page EXCEPT !.task_id = TaskId]
  /\ ppc' = [ppc EXCEPT !.task = "claim"]
  /\ UNCHANGED <<ploc, evVars, pipeVars, restVars, moreVars>>

\* tasks.py:170-186: the conditional UPDATE QUEUED / FAILED -> PROCESSING
TaskClaim ==
  /\ ppc.task = "claim"
  /\ IF page.extract_status \in {"queued", "failed"}
     THEN /\ page' = [page EXCEPT !.extract_status = "processing"]
          /\ ppc' = [ppc EXCEPT !.task = "load"]
          /\ UNCHANGED ploc
     ELSE /\ ploc' = [ploc EXCEPT !.result = "skip"]
          /\ ppc' = [ppc EXCEPT !.task = "returned"]
          /\ UNCHANGED page
  /\ UNCHANGED <<evVars, pipeVars, restVars, moreVars>>

\* tasks.py:189-190: load the instance after the claim
TaskLoad ==
  /\ ppc.task = "load"
  /\ ploc' = [ploc EXCEPT !.task = page]
  /\ ppc' = [ppc EXCEPT !.task = "save"]
  /\ UNCHANGED <<page, evVars, pipeVars, restVars, moreVars>>

\* tasks.py:191-198: extract_status = PROCESSING; save() writes every column;
\* the test that follows reads the value just assigned
TaskSaveProcessing ==
  /\ ppc.task = "save"
  /\ page' = [ploc.task EXCEPT !.extract_status = "processing"]
  /\ ploc' = [ploc EXCEPT !.task = page']
  /\ ppc' = [ppc EXCEPT !.task = "refresh"]
  /\ UNCHANGED <<evVars, pipeVars, restVars, moreVars>>

\* tasks.py:223-227: refresh_from_db and leave when the page is CANCELED
TaskRefresh ==
  /\ ppc.task = "refresh"
  /\ IF page.extract_status = "canceled"
     THEN /\ ploc' = [ploc EXCEPT !.task = page, !.result = "canceled"]
          /\ ppc' = [ppc EXCEPT !.task = "returned"]
     ELSE /\ ploc' = [ploc EXCEPT !.task = page]
          /\ ppc' = [ppc EXCEPT !.task = "region"]
  /\ UNCHANGED <<page, evVars, pipeVars, restVars, moreVars>>

\* tasks.py:230 with pdf_processor.py:518-537 and 653-655: the call passes
\* segmentation_method where process_page_region takes page_image, so
\* page_image.image raises AttributeError, and so does page_image.id in the
\* handler of process_page_region: the call raises before any write
process_page_region ==
  /\ ppc.task = "region"
  /\ ppc' = [ppc EXCEPT !.task = "handler"]
  /\ UNCHANGED <<page, ploc, evVars, pipeVars, restVars, moreVars>>

\* tasks.py:246-258: the handler reads the page, sets FAILED, clears the
\* task id and saves every column
TaskHandler ==
  /\ ppc.task = "handler"
  /\ page' = [extract_status |-> "failed", task_id |-> ""]
  /\ ploc' = [ploc EXCEPT !.task = page']
  /\ ppc' = [ppc EXCEPT !.task = "retry"]
  /\ UNCHANGED <<evVars, pipeVars, restVars, moreVars>>

\* tasks.py:261 with max_retries=2: self.retry sends the task again under
\* the same id, or re-raises once the retries are used up
TaskRetry ==
  /\ ppc.task = "retry"
  /\ IF ploc.retries < PageMaxRetries
     THEN /\ ploc' = [ploc EXCEPT !.retries = @ + 1]
          /\ ppc' = [ppc EXCEPT !.task = "queued"]
     ELSE /\ ploc' = [ploc EXCEPT !.result = "raised"]
          /\ ppc' = [ppc EXCEPT !.task = "gave_up"]
  /\ UNCHANGED <<page, evVars, pipeVars, restVars, moreVars>>

\* models.py:323 revoke(task_id, terminate=True) reaches the worker: a
\* waiting task is dropped, a running one is killed where it stands
RevokeTakesEffect ==
  /\ ploc.revoked
  /\ ppc.task \in TaskInFlightPcs
  /\ ppc' = [ppc EXCEPT !.task = IF ppc.task = "queued" THEN "discarded" ELSE "killed"]
  /\ UNCHANGED <<page, ploc, evVars, pipeVars, restVars, moreVars>>

\* views.py:1776-1785: cancel_region_analysis reads the page and refuses
\* unless it is QUEUED or PROCESSING
CancelRead ==
  /\ ppc.cancel = "idle"
  /\ ploc.cancels < MaxCancels
  /\ ploc' = [ploc EXCEPT !.cancel = page, !.cancels = @ + 1]
  /\ ppc' = [ppc EXCEPT !.cancel = IF page.extract_status \in {"queued", "processing"}
                                   THEN "write" ELSE "idle"]
  /\ UNCHANGED <<page, evVars, pipeVars, restVars, moreVars>>

\* views.py:1787-1789: extract_status = CANCELED; save() writes every column
CancelWrite ==
  /\ ppc.cancel = "write"
  /\ page' = [ploc.cancel EXCEPT !.extract_status = "canceled"]
  /\ ploc' = [ploc EXCEPT !.cancel = page',
                          !.canceledInFlight = (ppc.task \in TaskInFlightPcs)]
  /\ ppc' = [ppc EXCEPT !.cancel = "revoke"]
  /\ UNCHANGED <<evVars, pipeVars, restVars, moreVars>>

\* views.py:1791-1794 and models.py:317-334: revoke the stored task and
\* clear the task id, when the instance holds one
CancelRevoke ==
  /\ ppc.cancel = "revoke"
  /\ IF ploc.cancel.task_id # ""
     THEN /\ page' = [page EXCEPT !.task_id = ""]
          /\ ploc' = [ploc EXCEPT !.revoked = TRUE, !.cancel.task_id = ""]
     ELSE UNCHANGED <<page, ploc>>
  /\ ppc' = [ppc EXCEPT !.cancel = "idle"]
  /\ UNCHANGED <<evVars, pipeVars, restVars, moreVars>>

NextPage ==
  \/ AnalyzeRead
  \/ AnalyzeSaveQueued
  \/ AnalyzeDelay
  \/ AnalyzeSetTask
  \/ TaskDeliver
  \/ TaskSaveId
  \/ TaskClaim
  \/ TaskLoad
  \/ TaskSaveProcessing
  \/ TaskRefresh
  \/ process_page_region
  \/ TaskHandler
  \/ TaskRetry
  \/ RevokeTakesEffect
  \/ CancelRead
  \/ CancelWrite
  \/ CancelRevoke

\* ============================================== outcome of a pipeline run
\* mark_succeeded and mark_failed of pdf_processor as producers of events:
\* the row they save, the workspace_event they emit and the notification
\* they send to the project group
NoProducer ==
  [ fn |-> "", at |-> "", saved |-> "", emitted |-> "", notification |-> "",
    applyRaised |-> FALSE, fromHandler |-> FALSE ]

\* pdf_processor.py:49-53 called from mark_failed: step, progress 0 and the
\* pipeline_state; there is no "error" key
FailedPayload(step) ==
  [EmptyPayload EXCEPT !["pipeline_step"] = PyStr(step),
                       !["pipeline_progress"] = PyInt(0)]

\* mark_failed up to the call of workspace_event inside _emit_progress_event
\* (pdf_processor.py:134-146, 47-76): the row is saved FAILED, the event is
\* TASK_PROGRESS
EnterMarkFailed(c, step, fromHandler) ==
  /\ ws' = mark_failed(ws, step)
  /\ call' = [call EXCEPT ![c] =
                NewCall("workspace_event", "TASK_PROGRESS", WorkspaceId, WorkspaceId,
                        WorkspaceUser, FailedPayload(step), WorkspaceArgs, 0)]
  /\ pc' = [pc EXCEPT ![c] = "seq"]
  /\ producer' = [producer EXCEPT ![c] =
                    [NoProducer EXCEPT !.fn = "mark_failed", !.at = "event",
                                       !.saved = "failed", !.emitted = "TASK_PROGRESS",
                                       !.fromHandler = fromHandler]]

\* pdf_processor.py:490 with 157-180: process_workspace has rendered every
\* page and calls mark_succeeded, which saves the row and calls workspace_event
CallMarkSucceeded(c) ==
  /\ pc[c] \in {"idle", "done"}
  /\ producer[c].at \in {"", "over"}
  /\ callsMade < MaxCalls
  /\ callsMade' = callsMade + 1
  /\ ws' = mark_succeeded(ws)
  /\ call' = [call EXCEPT ![c] =
                NewCall("workspace_event", "TASK_COMPLETED", WorkspaceId, WorkspaceId,
                        WorkspaceUser, PayloadDone, WorkspaceArgs, 0)]
  /\ pc' = [pc EXCEPT ![c] = "seq"]
  /\ producer' = [producer EXCEPT ![c] =
                    [NoProducer EXCEPT !.fn = "mark_succeeded", !.at = "event",
                                       !.saved = "succeeded",
                                       !.emitted = "TASK_COMPLETED"]]
  /\ UNCHANGED <<seqVars, jobStatus, channelLayer, stats, lockHeld, wpc, wloc, runs,
                 pageVars, subs, tracked, sessions, handled, probe, moreVars>>

\* pdf_processor.py:492-495: a step of process_workspace raised (while
\* loading the file or rendering a page) and the handler calls mark_failed
CallMarkFailed(c) ==
  /\ pc[c] \in {"idle", "done"}
  /\ producer[c].at \in {"", "over"}
  /\ callsMade < MaxCalls
  /\ callsMade' = callsMade + 1
  /\ \E step \in {"load_pdf", "render_pages"} : EnterMarkFailed(c, step, FALSE)
  /\ UNCHANGED <<seqVars, jobStatus, channelLayer, stats, lockHeld, wpc, wloc, runs,
                 pageVars, subs, tracked, sessions, handled, probe, moreVars>>

\* the database raises inside the transaction of workspace_event
\* (notifier.py:66-101) and nothing is committed.  Inside mark_failed the
\* except of _emit_progress_event (pdf_processor.py:77-78) swallows it; inside
\* mark_succeeded nothing catches it before the handler of process_workspace
\* (pdf_processor.py:492-495), which calls mark_failed with the step of the
\* instance, FINISHED
ApplyRaises(c) ==
  /\ pc[c] = "txn"
  /\ producer[c].at = "event"
  /\ IF producer[c].fn = "mark_succeeded"
     THEN EnterMarkFailed(c, "finished", TRUE)
     ELSE /\ pc' = [pc EXCEPT ![c] = "done"]
          /\ producer' = [producer EXCEPT ![c].applyRaised = TRUE]
          /\ UNCHANGED <<ws, call>>
  /\ UNCHANGED <<seqVars, jobStatus, callsMade, channelLayer, stats, lockHeld, wpc,
                 wloc, runs, pageVars, subs, tracked, sessions, handled, probe, moreVars>>

\* websocket_utils.send_notification_to_project_group, called unguarded at
\* pdf_processor.py:149 and 183: it returns when there is no channel layer or
\* the project group has no tracked member (websocket_utils.py:289-300),
\* draws its sequence number from the counter of str(project_id), the
\* workspace's task, and calls group_send, which may raise (342-345)
send_notification_to_project_group(c) ==
  /\ pc[c] = "done"
  /\ producer[c].at = "event"
  /\ \E outcome \in {"no_members", "sent", "raised"}, redisUp \in BOOLEAN :
       LET t == WorkspaceId
           reached == channelLayer # "none" /\ outcome # "no_members"
           result == IF channelLayer = "none" THEN "no_layer" ELSE outcome
       IN  /\ counter' = IF reached /\ redisUp
                         THEN [counter EXCEPT ![t] = Incr(counter[t])] ELSE counter
           /\ issued' = IF reached /\ redisUp
                        THEN [issued EXCEPT ![t] = Append(@, Incr(counter[t]))] ELSE issued
           /\ IF result = "raised" /\ producer[c].fn = "mark_succeeded"
              THEN EnterMarkFailed(c, "finished", TRUE)
              ELSE /\ producer' = [producer EXCEPT ![c].at = "over",
                                                   ![c].notification = result]
                   /\ UNCHANGED <<ws, call, pc>>
  /\ UNCHANGED <<top, jobStatus, callsMade, channelLayer, stats, lockHeld, wpc, wloc,
                 runs, pageVars, subs, tracked, sessions, handled, probe, moreVars>>

\* the end of a pipeline run: mark_succeeded or mark_failed with the events
\* they emit through the job-status projector
NextOutcome ==
  \/ \E c \in Callers : CallMarkSucceeded(c)
  \/ \E c \in Callers : CallMarkFailed(c)
  \/ \E c \in Callers : get_next_sequence(c)
  \/ \E c \in Callers : ApplyTransaction(c)
  \/ \E c \in Callers : ApplyRaises(c)
  \/ \E c \in Callers : PublishEventSync(c)
  \/ \E c \in Callers : send_notification_to_project_group(c)

\* ============================================== WebSocket consumers
\* the authenticated users, the connections, and the group names clients ask
\* for (raw_group.replace(':', '_').strip() gives the name; <<>> is a blank one)
Users    == {3, 7}
Sessions == 1..NumSessions
SubscribeNames ==
  { <<"user", "3">>, <<"user", "7">>, <<"job", "42">>, <<"project", "9">>,
    <<"nogroup">>, <<>> }
GroupNames == (SubscribeNames \ {<<>>}) \cup {<<"events", "task", "failed">>}
GroupLists ==
  {<<>>} \cup {<<g>> : g \in SubscribeNames}
         \cup {<<g, <<"project", "9">> >> : g \in SubscribeNames}

NewSession ==
  [ state |-> "new", consumer |-> "", user |-> NoneVal, close_code |-> 0,
    group_memberships |-> {}, accepted |-> FALSE, hello |-> FALSE,
    discards |-> {} ]

\* `if not user or isinstance(user, AnonymousUser)` (consumers/base.py:28)
AuthFailedNever(user) == FALSE
AuthFailed(user) == user = NoneVal

\* the channel layer groups, the tracked members and group_memberships that
\* a handler of session s works on
GroupState(s) ==
  [subs |-> subs, tracked |-> tracked, mem |-> sessions[s].group_memberships]

\* EventConsumer._subscribe_to_groups (consumers/events.py:133-175): the
\* permission check, group_add, then sadd and group_memberships.add
RECURSIVE EventConsumer_subscribe_to_groups(_, _, _, _, _, _)
EventConsumer_subscribe_to_groups(st, s, user, groups, addOk, redisUp) ==
  IF groups = <<>> THEN st
  ELSE LET g == Head(groups)
           joined ==
             IF g = <<>> \/ ~can_user_access_group(user, g) \/ ~addOk THEN st
             ELSE IF ~redisUp THEN [st EXCEPT !.subs[g] = @ \cup {s}]
             ELSE [st EXCEPT !.subs[g] = @ \cup {s}, !.tracked[g] = @ \cup {user},
                             !.mem = @ \cup {g}]
       IN  EventConsumer_subscribe_to_groups(joined, s, user, Tail(groups), addOk, redisUp)

\* JobConsumer._subscribe_to_groups (consumers/jobs.py:285-349): group_add,
\* sadd when redis answers, group_memberships.add; no permission check
RECURSIVE JobConsumer_subscribe_to_groups(_, _, _, _, _, _)
JobConsumer_subscribe_to_groups(st, s, user, groups, addOk, redisUp) ==
  IF groups = <<>> THEN st
  ELSE LET g == Head(groups)
           joined ==
             IF g = <<>> \/ ~addOk THEN st
             ELSE [st EXCEPT !.subs[g] = @ \cup {s},
                             !.tracked[g] = IF redisUp THEN @ \cup {user} ELSE @,
                             !.mem = @ \cup {g}]
       IN  JobConsumer_subscribe_to_groups(joined, s, user, Tail(groups), addOk, redisUp)

\* BaseWebSocketConsumer.connect (consumers/base.py:22-51) of an EventConsumer
\* or a JobConsumer: close with 4403 when authentication fails, else join
\* user_<id>
Connect(s) ==
  /\ sessions[s].state = "new"
  /\ handled < MaxMessages
  /\ handled' = handled + 1
  /\ \E consumer \in {"events", "jobs"}, user \in Users \cup {NoneVal} :
       IF AuthFailed(user)
       THEN /\ sessions' = [sessions EXCEPT ![s].state = "closed", ![s].close_code = 4403]
            /\ UNCHANGED subs
       ELSE /\ sessions' = [sessions EXCEPT ![s].state = "open", ![s].consumer = consumer,
                                            ![s].user = user, ![s].accepted = TRUE,
                                            ![s].hello = TRUE]
            /\ subs' = [g \in GroupNames |->
                          IF g = <<"user", StrOf(user)>> THEN subs[g] \cup {s} ELSE subs[g]]
  /\ UNCHANGED <<evVars, pipeVars, pageVars, producer, tracked, probe, moreVars>>

\* disconnect of a connection that was closed or that the client leaves
\* (consumers/events.py:259-265, consumers/jobs.py:457-475, then
\* consumers/base.py:53-60): srem for every group of group_memberships, then
\* group_discard of the user group when user_group_name is set; discards
\* records the groups both were called for. The srem of an EventConsumer is
\* unguarded: when redis does not answer, disconnect ends there
Disconnect(s) ==
  /\ sessions[s].state \in {"open", "closed"}
  /\ \E redisUp \in BOOLEAN :
       LET ss == sessions[s]
           mem == ss.group_memberships
           raised == ss.consumer = "events" /\ mem # {} /\ ~redisUp
           srem == IF redisUp THEN mem ELSE {}
           discard == IF raised \/ ss.user = NoneVal THEN {}
                      ELSE {<<"user", StrOf(ss.user)>>}
       IN  /\ tracked' = [g \in GroupNames |->
                            IF g \in srem THEN tracked[g] \ {ss.user} ELSE tracked[g]]
           /\ subs' = [g \in GroupNames |->
                         IF g \in discard THEN subs[g] \ {s} ELSE subs[g]]
           /\ sessions' = [sessions EXCEPT
                             ![s].state = "gone",
                             ![s].group_memberships = IF ss.consumer = "jobs" THEN {} ELSE @,
                             ![s].discards = srem \cup discard]
  /\ UNCHANGED <<evVars, pipeVars, pageVars, producer, handled, probe, moreVars>>

\* EventConsumer.handle_custom_message, subscribe_events
\* (consumers/events.py:56-62, 79-106, 133-175)
ReceiveSubscribeEvents(s) ==
  /\ sessions[s].state = "open"
  /\ sessions[s].consumer = "events"
  /\ handled < MaxMessages
  /\ handled' = handled + 1
  /\ \E event_types \in {<<>>, <<"TASK_FAILED">>}, groups \in GroupLists,
        addOk \in BOOLEAN, redisUp \in BOOLEAN :
       LET user == sessions[s].user
           typeGroup == <<"events", "task", "failed">>
           st0 == GroupState(s)
           st1 == IF event_types # <<>> /\ can_user_access_group(user, typeGroup) /\ addOk
                  THEN [st0 EXCEPT !.subs[typeGroup] = @ \cup {s}]
                  ELSE st0
           st2 == EventConsumer_subscribe_to_groups(st1, s, user, groups, addOk, redisUp)
       IN  /\ subs' = st2.subs
           /\ tracked' = st2.tracked
           /\ sessions' = [sessions EXCEPT ![s].group_memberships = st2.mem]
  /\ UNCHANGED <<evVars, pipeVars, pageVars, producer, probe, moreVars>>

\* JobConsumer.handle_custom_message, subscribe_job (consumers/jobs.py:57-77)
ReceiveSubscribeJob(s) ==
  /\ sessions[s].state = "open"
  /\ sessions[s].consumer = "jobs"
  /\ handled < MaxMessages
  /\ handled' = handled + 1
  /\ \E job_id \in {"", "42"}, addOk \in BOOLEAN :
       subs' = IF job_id # "" /\ addOk
               THEN [subs EXCEPT ![<<"job", job_id>>] = @ \cup {s}]
               ELSE subs
  /\ UNCHANGED <<evVars, pipeVars, pageVars, producer, tracked, sessions, probe, moreVars>>

\* JobConsumer.handle_custom_message, subscribe_jobs
\* (consumers/jobs.py:86-91, 285-349)
ReceiveSubscribeJobs(s) ==
  /\ sessions[s].state = "open"
  /\ sessions[s].consumer = "jobs"
  /\ handled < MaxMessages
  /\ handled' = handled + 1
  /\ \E groups \in GroupLists, addOk \in BOOLEAN, redisUp \in BOOLEAN :
       LET st == JobConsumer_subscribe_to_groups(GroupState(s), s, sessions[s].user,
                                                 groups, addOk, redisUp)
       IN  /\ subs' = st.subs
           /\ tracked' = st.tracked
           /\ sessions' = [sessions EXCEPT ![s].group_memberships = st.mem]
  /\ UNCHANGED <<evVars, pipeVars, pageVars, producer, probe, moreVars>>

NextSessions ==
  \/ \E s \in Sessions : Connect(s)
  \/ \E s \in Sessions : ReceiveSubscribeEvents(s)
  \/ \E s \in Sessions : ReceiveSubscribeJob(s)
  \/ \E s \in Sessions : ReceiveSubscribeJobs(s)
  \/ \E s \in Sessions : Disconnect(s)

\* ============================================== pure functions
\* calls of the stateless functions of permissions.py, groups.py and
\* envelope.py; probe holds the arguments and the result of the last call

\* the second arguments of the check_project_member calls that
\* validate_group_access(user_id, g) makes (permissions.py:124-127, 154-172):
\* project_member passes the entity id, job_access and page_access pass the
\* carried project_id; the loop stops at the first permission that fails
MembershipChecks(user_id, g) ==
  LET perms == g.permissions_required
      reached == {k \in 1..Len(perms) :
                    \A j \in 1..(k - 1) : _check_permission(user_id, perms[j], g)}
  IN  { g.entity_id : k \in {i \in reached : perms[i] = "project_member"} }
      \cup { <<g.project_id>> :
               k \in {i \in reached : /\ perms[i] \in {"job_access", "page_access"}
                                      /\ ~MissingProject(g.project_id)} }

\* an Enum member; to_dict writes its value, from_dict looks the value up
EnumMember(enum, value) == [enum |-> enum, value |-> value]

\* EventEnvelope(...) with __post_init__ (envelope.py:50-64)
EventEnvelope(event_type, task_id, job_type, project_id, page_id, user_id, seq, ts, detail_url, meta) ==
  [ event_type |-> event_type, task_id |-> task_id, job_type |-> job_type,
    project_id |-> project_id, page_id |-> page_id, user_id |-> user_id,
    seq |-> seq, ts |-> ts,
    detail_url |-> IF detail_url = "" THEN "/api/jobs/" \o task_id ELSE detail_url,
    meta |-> meta ]

\* EventEnvelope.to_dict (envelope.py:66-79)
to_dict(e) ==
  [ event_type |-> e.event_type.value, task_id |-> e.task_id,
    job_type |-> e.job_type.value, project_id |-> e.project_id,
    page_id |-> e.page_id, user_id |-> e.user_id, seq |-> e.seq, ts |-> e.ts,
    detail_url |-> e.detail_url, meta |-> e.meta ]

\* EventEnvelope.from_dict (envelope.py:85-98): meta is not passed on, so the
\* envelope gets the default, an empty dict
from_dict(data) ==
  EventEnvelope(EnumMember("EventType", data.event_type), data.task_id,
                EnumMember("JobType", data.job_type), data.project_id, data.page_id,
                data.user_id, data.seq, data.ts, data.detail_url, << >>)

\* PermissionChecker.validate_group_access on the targets GroupManager builds
\* and on user targets whose entity id is not a plain number
CallValidateGroupAccess ==
  \E user_id \in Users, u \in Users \cup {NoneVal}, project_id \in {"", "9"},
     kind \in {"user", "project", "job", "workspace", "page", "other"},
     i \in 1..2, entity \in {"07", "x"} :
    LET groups == IF kind = "user" THEN get_user_groups(u) \o get_user_groups(u)
                  ELSE IF kind = "project" THEN get_project_groups("9", u)
                  ELSE IF kind = "job" THEN get_job_groups("42", project_id, u)
                  ELSE IF kind = "workspace" THEN get_workspace_groups("9", u)
                  ELSE IF kind = "page" THEN get_page_groups("5", project_id)
                  ELSE << GroupTarget(<<"user", entity>>, "user", <<entity>>,
                                      <<"user_access">>, ""),
                          GroupTarget(<<"events", "task", "failed">>, "event_type",
                                      <<"task", "failed">>, <<"event_access">>, "") >>
        g == groups[i]
    IN  probe' = [ fn |-> "validate_group_access", user_id |-> user_id, group |-> g,
                   result |-> validate_group_access(user_id, g),
                   user_access |-> _check_permission(user_id, "user_access", g),
                   membership |-> MembershipChecks(user_id, g) ]
  /\ UNCHANGED <<evVars, pipeVars, pageVars, producer, subs, tracked, sessions, handled, moreVars>>

\* PermissionChecker.can_user_access_group on a group name
CallCanUserAccessGroup ==
  /\ \E user_id \in Users, group_name \in GroupNames \cup {<<"page", "5">>, <<"user", "a b">>} :
       probe' = [ fn |-> "can_user_access_group", user_id |-> user_id,
                  group_name |-> group_name,
                  result |-> can_user_access_group(user_id, group_name) ]
  /\ UNCHANGED <<evVars, pipeVars, pageVars, producer, subs, tracked, sessions, handled, moreVars>>

\* GroupManager.compute_groups_for_event
CallComputeGroups ==
  /\ \E event_type \in {"TASK_STARTED", "NOTIFICATION"}, task_id \in {"", "t1"},
        project_id \in {"", "p1"}, user_id \in {7, NoneVal},
        workspace_id \in {"", "w1"}, page_id \in {"", "5"} :
       probe' = [ fn |-> "compute_groups_for_event", event_type |-> event_type,
                  task_id |-> task_id, project_id |-> project_id, user_id |-> user_id,
                  workspace_id |-> workspace_id, page_id |-> page_id,
                  result |-> compute_groups_for_event(event_type, task_id, project_id,
                                                      user_id, workspace_id, page_id) ]
  /\ UNCHANGED <<evVars, pipeVars, pageVars, producer, subs, tracked, sessions, handled, moreVars>>

\* EventEnvelope.from_dict(e.to_dict()) for an envelope e
CallFromDict ==
  /\ \E event_type \in {"TASK_QUEUED", "NOTIFICATION"},
        job_type \in {"pdf_extraction", "sync"}, page_id \in {PyNone, PyStr("5")},
        user_id \in {0, 3}, seq \in {0, 5}, ts \in {0, 1000},
        detail_url \in {"", "/api/workspaces/9/"},
        meta \in { << >>, [title |-> "done"], [counts |-> [total |-> 2]] } :
       LET e == EventEnvelope(EnumMember("EventType", event_type), "42",
                              EnumMember("JobType", job_type), "9", page_id, user_id,
                              seq, ts, detail_url, meta)
       IN  probe' = [ fn |-> "from_dict", envelope |-> e, data |-> to_dict(e),
                      result |-> from_dict(to_dict(e)) ]
  /\ UNCHANGED <<evVars, pipeVars, pageVars, producer, subs, tracked, sessions, handled, moreVars>>

NextFunctions ==
  \/ CallValidateGroupAccess
  \/ CallCanUserAccessGroup
  \/ CallComputeGroups
  \/ CallFromDict

\* ============================================== start, then completion
\* a task publishes TASK_STARTED through the bridge; the producer of the same
\* task applies its events through workspace_event afterwards

\* the process of the task that publishes its start, and the processes of
\* its producers, which only apply
Starters == {1}
Appliers == Callers \ Starters

\* publish_event_async(TASK_STARTED, ...) has returned a PublishResult with
\* success = True for task t (bridge.py:86-101)
StartPublished(t) ==
  \E p \in Starters :
     /\ pc[p] = "done"
     /\ call[p].op = "publish_event_async"
     /\ call[p].event_type = "TASK_STARTED"
     /\ call[p].task_id = t
     /\ call[p].success

\* the task's one call publish_event_async(TASK_STARTED, task_id, job_type,
\* project_id = "9", user_id = 3) (bridge.py:48-64)
PublishStarted(p) ==
  /\ pc[p] = "idle"
  /\ \E t \in WorkspaceTasks :
        call' = [call EXCEPT ![p] =
                   NewCall("publish_event_async", "TASK_STARTED", t, "9", 3,
                           EmptyPayload, WorkspaceArgs, DefaultMaxRetries)]
  /\ pc' = [pc EXCEPT ![p] = "seq"]
  /\ UNCHANGED <<seqVars, jobStatus, callsMade, channelLayer, stats, pipeVars,
                 pageVars, restVars, moreVars>>

\* the producer reports progress: workspace_event(TASK_PROGRESS, ...)
\* (pdf_processor.py:67-76)
ApplyProgress(c) ==
  /\ CallWorkspaceEvent(c)
  /\ call'[c].event_type = "TASK_PROGRESS"

\* workspace_event(TASK_COMPLETED, ...) once the start has been published:
\* with the payload of mark_succeeded (pipeline_progress = 100,
\* pdf_processor.py:166-180) or with a payload that carries no progress, as
\* the page producers send (pdf_processor.py:94-97)
ApplyCompleted(c) ==
  /\ pc[c] \in {"idle", "done"}
  /\ callsMade < MaxCalls
  /\ \E t \in WorkspaceTasks, payload \in {PayloadDone, EmptyPayload} :
        /\ StartPublished(t)
        /\ call' = [call EXCEPT ![c] =
                      NewCall("workspace_event", "TASK_COMPLETED", t, "9",
                              WorkspaceUser, payload, WorkspaceArgs, 0)]
  /\ pc' = [pc EXCEPT ![c] = "seq"]
  /\ callsMade' = callsMade + 1
  /\ UNCHANGED <<seqVars, jobStatus, channelLayer, stats, pipeVars, pageVars, restVars, moreVars>>

NextScenario ==
  \/ \E p \in Starters : PublishStarted(p)
  \/ \E p \in Starters : PublishAttempt(p)
  \/ \E p \in Starters : BackoffSleep(p)
  \/ \E c \in Appliers : ApplyProgress(c)
  \/ \E c \in Appliers : ApplyCompleted(c)
  \/ \E c \in Starters \cup Appliers : get_next_sequence(c)
  \/ \E c \in Appliers : ApplyTransaction(c)
  \/ \E c \in Appliers : PublishEventSync(c)

\* both kinds of publish call on the one bridge of a process
NextStats ==
  \/ \E c \in Appliers : CallWorkspaceEvent(c) /\ call'[c].event_type = "TASK_PROGRESS"
  \/ \E c \in Appliers : get_next_sequence(c)
  \/ \E c \in Appliers : ApplyTransaction(c)
  \/ \E c \in Appliers : PublishEventSync(c)
  \/ NextBridge

\* producers applying events whose payloads carry every kind of progress
NextProgress ==
  \/ \E c \in Appliers : CallWithProgress(c)
  \/ \E c \in Appliers : get_next_sequence(c)
  \/ \E c \in Appliers : ApplyTransaction(c)
  \/ \E c \in Appliers : PublishEventSync(c)

\* ============================================== process_page_region
\* one run of pdf_processor.process_page_region on the page, with
\* cancel_region_analysis requests arriving at any moment; events holds the
\* event types of the page_event calls of the run that returned

NoRegion == [pc |-> "idle", call |-> "", events |-> << >>]

\* page_event / _emit_progress_job for the page's task: the event type is
\* recorded when the call returns; _emit_progress_job swallows an exception
\* of page_event (pdf_processor.py:82-100)
Emitted(events, event_type, ok) == IF ok THEN Append(events, event_type) ELSE events

\* the call (pdf_processor.py:518-549). The two callers of the repository
\* (tasks.py:230, consumers/jobs.py:167) do not pass page_image: the task
\* passes segmentation_method in its place, so page_image.image raises and so
\* does page_image.id in the handler; the consumer's call raises TypeError.
\* A call as declared returns at once when the image file is missing,
\* otherwise it writes QUEUED and emits TASK_STARTED, unguarded
RegionCall ==
  /\ region.pc \in {"idle", "returned", "raised"}
  /\ \E how \in {"as_declared", "as_called"}, image \in BOOLEAN, emitOk \in BOOLEAN :
       IF how = "as_called"
       THEN /\ region' = [pc |-> "raised", call |-> how, events |-> << >>]
            /\ UNCHANGED page
       ELSE IF ~image
       THEN /\ region' = [pc |-> "returned", call |-> how, events |-> << >>]
            /\ UNCHANGED page
       ELSE /\ page' = [page EXCEPT !.extract_status = "queued"]
            /\ region' = [pc |-> IF emitOk THEN "crop" ELSE "handler", call |-> how,
                          events |-> Emitted(<< >>, "TASK_STARTED", emitOk)]
  /\ UNCHANGED <<ppc, ploc, evVars, pipeVars, restVars, batch, sync>>

\* pdf_processor.py:560-574: crop the region (an exception goes to the
\* handler), then PROCESSING and TASK_PROGRESS
RegionCrop ==
  /\ region.pc = "crop"
  /\ \E cropOk \in BOOLEAN, emitOk \in BOOLEAN :
       IF cropOk
       THEN /\ page' = [page EXCEPT !.extract_status = "processing"]
            /\ region' = [region EXCEPT !.pc = "extract",
                                        !.events = Emitted(@, "TASK_PROGRESS", emitOk)]
       ELSE /\ region' = [region EXCEPT !.pc = "handler"]
            /\ UNCHANGED page
  /\ UNCHANGED <<ppc, ploc, evVars, pipeVars, restVars, batch, sync>>

\* pdf_processor.py:576-651: the extraction request; FINISHED and
\* TASK_COMPLETED when it answers 200 or when no API is configured, an
\* exception otherwise
RegionExtract ==
  /\ region.pc = "extract"
  /\ \E extracted \in BOOLEAN, emitOk \in BOOLEAN :
       IF extracted
       THEN /\ page' = [page EXCEPT !.extract_status = "finished"]
            /\ region' = [region EXCEPT !.pc = "returned",
                                        !.events = Emitted(@, "TASK_COMPLETED", emitOk)]
       ELSE /\ region' = [region EXCEPT !.pc = "handler"]
            /\ UNCHANGED page
  /\ UNCHANGED <<ppc, ploc, evVars, pipeVars, restVars, batch, sync>>

\* pdf_processor.py:653-665: the handler writes FAILED and emits TASK_FAILED
RegionHandler ==
  /\ region.pc = "handler"
  /\ \E emitOk \in BOOLEAN :
       region' = [region EXCEPT !.pc = "returned",
                                !.events = Emitted(@, "TASK_FAILED", emitOk)]
  /\ page' = [page EXCEPT !.extract_status = "failed"]
  /\ UNCHANGED <<ppc, ploc, evVars, pipeVars, restVars, batch, sync>>

NextRegion ==
  \/ RegionCall
  \/ RegionCrop
  \/ RegionExtract
  \/ RegionHandler
  \/ CancelRead
  \/ CancelWrite
  \/ CancelRevoke

\* ============================================== batch of workspaces
\* one run of process_pending_workspaces whose query returns BatchSize
\* workspaces; rows holds the pipeline_state of each, i is the loop variable

BatchItems == 1..BatchSize
NoBatch == [pc |-> "idle", i |-> 0, sel |-> {}, rows |-> [k \in BatchItems |-> "idle"]]

\* the loop goes on to the next workspace of the query (sel holds the
\* workspaces the query returned), or is over
BatchAdvance(b) ==
  IF \E k \in b.sel : k > b.i
  THEN [b EXCEPT !.pc = "mark", !.i = CHOOSE k \in b.sel : k > b.i /\ \A j \in b.sel : j > b.i => k <= j]
  ELSE [b EXCEPT !.pc = "done"]

\* pdf_processor.py:504-506: the query; every workspace of it is IDLE or FAILED
BatchQuery ==
  /\ batch.pc = "idle"
  /\ \E rows \in [BatchItems -> {"idle", "failed"}] :
       batch' = [pc |-> "mark", i |-> 1, sel |-> BatchItems, rows |-> rows]
  /\ UNCHANGED <<evVars, pipeVars, pageVars, restVars, region, sync>>

\* pdf_processor.py:509-510: mark_step(ws, QUEUED, state=RUNNING); its save
\* is unguarded, its event is not (pdf_processor.py:121, 47-78)
BatchMark ==
  /\ batch.pc = "mark"
  /\ \E saveOk \in BOOLEAN :
       batch' = IF saveOk THEN [batch EXCEPT !.pc = "process", !.rows[batch.i] = "running"]
                ELSE [batch EXCEPT !.pc = "except"]
  /\ UNCHANGED <<evVars, pipeVars, pageVars, restVars, region, sync>>

\* pdf_processor.py:512: process_workspace(ws): it returns after
\* mark_succeeded, or after the mark_failed of its own handlers
\* (pdf_processor.py:344-347, 492-495), or it raises because that mark_failed
\* raised after its save (the unguarded notification at 149-153)
BatchProcess ==
  /\ batch.pc = "process"
  /\ \E outcome \in {"succeeded", "failed", "raised"} :
       batch' = IF outcome = "raised"
                THEN [batch EXCEPT !.pc = "except", !.rows[batch.i] = "failed"]
                ELSE BatchAdvance([batch EXCEPT !.rows[batch.i] = outcome])
  /\ UNCHANGED <<evVars, pipeVars, pageVars, restVars, region, sync>>

\* pdf_processor.py:513-514: the handler of the loop body calls mark_failed,
\* outside any try: when its save or its notification raises, the exception
\* leaves the for loop and the function
BatchExcept ==
  /\ batch.pc = "except"
  /\ \E saveOk \in BOOLEAN, notifyOk \in BOOLEAN :
       LET marked == IF saveOk THEN [batch EXCEPT !.rows[batch.i] = "failed"] ELSE batch
       IN  batch' = IF saveOk /\ notifyOk THEN BatchAdvance(marked)
                    ELSE [marked EXCEPT !.pc = "raised"]
  /\ UNCHANGED <<evVars, pipeVars, pageVars, restVars, region, sync>>

NextBatch ==
  \/ BatchQuery
  \/ BatchMark
  \/ BatchProcess
  \/ BatchExcept

\* scheduler.py:12: the interval job fires again after a run is over; its
\* query (pdf_processor.py:504) returns the workspaces that are IDLE or
\* FAILED now, and the run returns at once when there is none
BatchTick ==
  /\ batch.pc \in {"done", "raised"}
  /\ LET sel == {k \in BatchItems : batch.rows[k] \in {"idle", "failed"}}
     IN  /\ sel # {}
         /\ batch' = [batch EXCEPT !.pc = "mark", !.sel = sel,
                                   !.i = CHOOSE k \in sel : \A j \in sel : k <= j]
  /\ UNCHANGED <<evVars, pipeVars, pageVars, restVars, region, sync>>

\* the scheduler job over time: one run after the other; the interval
\* trigger keeps firing and a run that has started goes on
NextRetry ==
  \/ NextBatch
  \/ BatchTick

\* ============================================== sync_workspace_tree_tto
\* concurrent runs of sync.service_tto.sync_workspace_tree_tto for the one
\* workspace, which has no sync_id; remote counts the projects the remote
\* API holds under the workspace's name, created the create_project calls
SyncRuns == {1, 2}
NoSync ==
  [ sync_status |-> "pending", sync_id |-> 0, remote |-> 0, created |-> 0,
    pc |-> [r \in SyncRuns |-> "idle"],
    local |-> [r \in SyncRuns |-> 0],
    match |-> [r \in SyncRuns |-> FALSE] ]

\* service_tto.py:102-116: the filter ~Q(sync_status=PROCESSING), evaluated
\* for its truth value only, then the reload of the instance
SyncStart(r) ==
  /\ sync.pc[r] = "idle"
  /\ sync' = IF sync.sync_status = "processing"
             THEN [sync EXCEPT !.pc[r] = "skipped"]
             ELSE [sync EXCEPT !.pc[r] = "scan", !.local[r] = sync.sync_id]
  /\ UNCHANGED <<evVars, pipeVars, pageVars, restVars, region, batch>>

\* service_tto.py:118-124: finish(status)
SyncFinish(sy, r, status) ==
  [sy EXCEPT !.sync_status = status,
             !.pc[r] = IF status = "success" THEN "done" ELSE "failed"]

\* service_tto.py:130-157: the pre-scan; need_project_bind is
\* ws.sync_id is None on the instance the run loaded
SyncScan(r) ==
  /\ sync.pc[r] = "scan"
  /\ \E otherWork \in BOOLEAN :
       sync' = IF sync.local[r] = 0 THEN [sync EXCEPT !.pc[r] = "list"]
               ELSE IF otherWork THEN [sync EXCEPT !.pc[r] = "rest"]
               ELSE SyncFinish(sync, r, "success")
  /\ UNCHANGED <<evVars, pipeVars, pageVars, restVars, region, batch>>

\* service_tto.py:164-181: api.list_projects_by_user() and the search for a
\* project of the workspace's name; an exception goes to the handler at
\* 401-407
SyncList(r) ==
  /\ sync.pc[r] = "list"
  /\ \E apiOk \in BOOLEAN :
       sync' = IF apiOk
               THEN [sync EXCEPT !.pc[r] = "project", !.match[r] = (sync.remote > 0)]
               ELSE SyncFinish(sync, r, "failed")
  /\ UNCHANGED <<evVars, pipeVars, pageVars, restVars, region, batch>>

\* service_tto.py:182-192 with _bind_sync (81-86): bind to the project found,
\* or api.create_project and bind to the new one
SyncProject(r) ==
  /\ sync.pc[r] = "project"
  /\ \E apiOk \in BOOLEAN :
       sync' = IF sync.match[r]
               THEN [sync EXCEPT !.sync_id = 1, !.local[r] = 1, !.pc[r] = "rest"]
               ELSE IF apiOk
               THEN [sync EXCEPT !.remote = @ + 1, !.created = @ + 1,
                                 !.sync_id = sync.remote + 1,
                                 !.local[r] = sync.remote + 1, !.pc[r] = "rest"]
               ELSE SyncFinish(sync, r, "failed")
  /\ UNCHANGED <<evVars, pipeVars, pageVars, restVars, region, batch>>

\* service_tto.py:196-407: the project update, the pages and the polygons,
\* then finish(SUCCESS), or the handler's update to FAILED
SyncRest(r) ==
  /\ sync.pc[r] = "rest"
  /\ \E ok \in BOOLEAN :
       sync' = SyncFinish(sync, r, IF ok THEN "success" ELSE "failed")
  /\ UNCHANGED <<evVars, pipeVars, pageVars, restVars, region, batch>>

NextSync ==
  \/ \E r \in SyncRuns : SyncStart(r)
  \/ \E r \in SyncRuns : SyncScan(r)
  \/ \E r \in SyncRuns : SyncList(r)
  \/ \E r \in SyncRuns : SyncProject(r)
  \/ \E r \in SyncRuns : SyncRest(r)

InitRest ==
  /\ producer = [c \in Callers |-> NoProducer]
  /\ subs = [g \in GroupNames |-> {}]
  /\ tracked = [g \in GroupNames |-> {}]
  /\ sessions = [s \in Sessions |-> NewSession]
  /\ handled = 0
  /\ probe = [fn |-> "none"]
  /\ region = NoRegion
  /\ batch = NoBatch
  /\ sync = NoSync

Init == InitEvents /\ InitPipeline /\ InitPage /\ InitRest

SpecEvents == Init /\ [][NextEvents]_vars
SpecBridge == Init /\ [][NextBridge]_vars
SpecPipeline == Init /\ [][NextPipeline]_vars
SpecPage == Init /\ [][NextPage]_vars
SpecOutcome == Init /\ [][NextOutcome]_vars
SpecSessions == Init /\ [][NextSessions]_vars
SpecFunctions == Init /\ [][NextFunctions]_vars
SpecScenario == Init /\ [][NextScenario]_vars
SpecRegion == Init /\ [][NextRegion]_vars
SpecBatch == Init /\ [][NextBatch]_vars
SpecStats == Init /\ [][NextStats]_vars
SpecProgress == Init /\ [][NextProgress]_vars
SpecSync == Init /\ [][NextSync]_vars
SpecRetry == Init /\ [][NextRetry]_vars /\ WF_vars(NextRetry)

\* ------------------------------------------------------- properties
RowSummary(t) ==
  [seq |-> jobStatus[t].seq, state |-> jobStatus[t].state,
   step |-> jobStatus[t].step, pct |-> jobStatus[t].pct]

Range(f) == {f[i] : i \in DOMAIN f}

\* C1: the N calls of a task that the counter store served got exactly the
\* values 1..N, each once: the first is 1, none is handed out twice, no gap
C1_SequenceExact ==
  \A t \in Tasks :
     /\ Range(issued[t]) = 1..Len(issued[t])
     /\ Cardinality(Range(issued[t])) = Len(issued[t])

\* two callers hold sequence numbers of the same task at the same time
C1_Witness ==
  \E t \in Tasks, c1 \in Callers, c2 \in Callers :
     /\ c1 # c2
     /\ pc[c1] = "txn" /\ pc[c2] = "txn"
     /\ call[c1].task_id = t /\ call[c2].task_id = t
     /\ Len(issued[t]) = 2
     /\ {call[c1].seq, call[c2].seq} = {1, 2}

\* C2: the seq stored in a task's JobStatus row never decreases
C2_SeqNeverDecreases ==
  [][\A t \in Tasks :
        RowExists(t) => /\ jobStatus'[t] # NoRow
                        /\ jobStatus'[t].seq >= jobStatus[t].seq]_vars

\* an apply call has raised the seq of a row that existed before it
C2_Witness ==
  \E c \in Callers :
     /\ pc[c] = "publish"
     /\ ~call[c].created
     /\ call[c].persisted
     /\ jobStatus[call[c].task_id].seq = call[c].seq

\* C3: an apply call whose seq is <= the seq of an existing row returns
\* persisted = false, dispatched = false and no envelope, leaves the row as it
\* was and sends nothing
C3_StaleIsNoOp ==
  [][\A c \in Callers :
        ( /\ pc[c] = "txn"
          /\ pc'[c] # "txn"
          /\ RowExists(call[c].task_id)
          /\ call[c].seq <= jobStatus[call[c].task_id].seq )
        => /\ jobStatus' = jobStatus
           /\ stats' = stats
           /\ pc'[c] = "done"
           /\ call'[c].persisted = FALSE
           /\ call'[c].dispatched = FALSE
           /\ call'[c].envelope = FALSE
           /\ call'[c].sends = 0]_vars

\* a call was rejected on an existing row that stores the very same seq
C3_Witness ==
  \E c \in Callers :
     /\ pc[c] = "done"
     /\ call[c].stale
     /\ ~call[c].created
     /\ call[c].seq = jobStatus[call[c].task_id].seq

\* C4: the first apply for a never-seen task creates the row, returns
\* persisted = true and goes on to build and publish its envelope; the stale
\* abort is taken only when the row existed before the call
C4_FirstApplyPersists ==
  \A c \in Callers :
     (pc[c] = "done" /\ call[c].op \in ApplyOps /\ call[c].created)
        => (call[c].persisted /\ call[c].envelope)

\* C5: once every transaction of the calls that drew a sequence number has
\* committed, the row holds the seq, state, step and pct of a call that was
\* issued the highest sequence number
C5_HighestSeqWins ==
  (\A c \in Callers : pc[c] \notin {"seq", "txn"})
     => \A t \in Tasks :
           top[t] # {} => (RowExists(t) /\ RowSummary(t) \in top[t])

\* the call with the lower seq reached the row after the one with the higher
C5_Witness ==
  \E c \in Callers :
     /\ pc[c] = "done"
     /\ call[c].stale
     /\ call[c].seq < jobStatus[call[c].task_id].seq
     /\ \A d \in Callers \ {c} : pc[d] \in {"idle", "done"}
     /\ callsMade >= 2

\* the filtered group set of the envelope of a publish_event_async call
AccessibleGroups(cl) ==
  filter_accessible_groups(cl.user_id,
     compute_groups_for_event(cl.event_type, cl.task_id, cl.project_id, cl.user_id,
                              PublishWorkspace(cl), EnvelopePage(cl)))

\* C6: with a transport that throws on every send, publish makes max_retries
\* retries after the first attempt and returns success = false with an error
\* and retry_count = max_retries
C6_RetryBound ==
  \A c \in Publishers :
     ( /\ pc[c] = "done"
       /\ call[c].op = "publish_event_async"
       /\ call[c].sends > 0
       /\ call[c].allThrew )
     => /\ call[c].success = FALSE
        /\ call[c].error # ""
        /\ call[c].retry_count = call[c].max_retries
        /\ call[c].attempts = call[c].max_retries + 1

\* C7: a publish whose filtered group set is empty returns success = false
\* with an error, sends nothing, never retries or sleeps, and is counted once
\* as a failed publish
C7_EmptyGroupsNoRetry ==
  [][\A c \in Publishers :
        ( /\ pc[c] = "attempt"
          /\ pc'[c] # "attempt"
          /\ Len(AccessibleGroups(call[c])) = 0 )
        => /\ pc'[c] = "done"
           /\ call'[c].success = FALSE
           /\ call'[c].error = "no_groups"
           /\ call'[c].sends = 0
           /\ call'[c].retry_count = 0
           /\ call'[c].sleeps = 0
           /\ call'[c].attempts = 1
           /\ stats'.total_published = stats.total_published + 1
           /\ stats'.failed_publishes = stats.failed_publishes + 1
           /\ stats'.successful_publishes = stats.successful_publishes]_vars

\* a publish with a configured channel layer found no accessible group
C7_Witness ==
  \E c \in Publishers :
     /\ pc[c] = "done"
     /\ channelLayer = "configured"
     /\ call[c].emptySet
     /\ call[c].error = "no_groups"

\* C8: of two process_workspace_task callers that were both sent while the
\* workspace was IDLE, exactly one claims it (and returns "ok"); the other
\* returns "skip"
C8_ExactlyOneClaim ==
  \A a, b \in TaskWorkers :
    ( /\ a # b
      /\ wpc[a] = "done" /\ wloc[a].sentWhileIdle
      /\ wpc[b] = "done" /\ wloc[b].sentWhileIdle )
    => \/ (wloc[a].result = "ok" /\ wloc[b].result = "skip")
       \/ (wloc[b].result = "ok" /\ wloc[a].result = "skip")

\* C9: no two workers are inside process_workspace for the workspace at the
\* same time, whether they came through the task or through the scheduler
C9_SingleProcessor ==
  \A a, b \in PipeWorkers : a # b => ~(Processing(a) /\ Processing(b))

\* C10: once CANCELED was committed while the analysis task was waiting or
\* running, the page is CANCELED when the task is over
C10_CancelWins ==
  (ploc.canceledInFlight /\ ppc.task \in TaskOverPcs)
    => page.extract_status = "canceled"

\* C11: a failure while persisting or publishing the notification of a run
\* that rendered every page does not change its outcome: no step of
\* mark_succeeded after its save changes the Workspace row, and the run is not
\* handed to mark_failed
C11_NotificationFailureHarmless ==
  [][\A c \in Callers :
        ( /\ producer[c].fn = "mark_succeeded"
          /\ producer[c].at = "event"
          /\ (pc'[c] # pc[c] \/ producer'[c] # producer[c]) )
        => /\ ws' = ws
           /\ producer'[c].fn = "mark_succeeded"]_vars

\* C12: when mark_failed is over, the row it saved is FAILED, the event it
\* emitted for the workspace's task is TASK_FAILED with a reason in meta.error,
\* and a NOTIFICATION was sent to the project group
C12_FailureAnnounced ==
  \A c \in Callers :
     (producer[c].fn = "mark_failed" /\ producer[c].at = "over")
        => /\ producer[c].saved = "failed"
           /\ producer[c].emitted = "TASK_FAILED"
           /\ "error" \in DOMAIN call[c].payload
           /\ call[c].payload["error"] # PyNone
           /\ producer[c].notification = "sent"

\* C13: when the pipeline has marked the workspace FAILED and every event of
\* the workspace's task is through the projector, the JobStatus row of the
\* task has state FAILURE, whatever became of the fan-out
C13_FailureProjected ==
  ( /\ \E c \in Callers : producer[c].fn = "mark_failed" /\ producer[c].at = "over"
    /\ \A c \in Callers : producer[c].fn # "mark_succeeded"
    /\ \A c \in Callers : pc[c] \in {"idle", "done"} )
  => /\ RowExists(WorkspaceId)
     /\ jobStatus[WorkspaceId].state = "FAILURE"

\* C14: a session is in a group only if the permission filter grants its
\* user access to that group; in particular no session of user A is in
\* user_B for B different from A
C14_JoinedOnlyIfPermitted ==
  \A g \in GroupNames :
     \A s \in subs[g] : can_user_access_group(sessions[s].user, g)

\* C15: a job or page target that carries no project_id is accessible to no
\* user: validate_group_access denies it without the denying check ever
\* consulting the membership collaborator, and can_user_access_group denies
\* every name of type job
C15_NoProjectNoAccess ==
  /\ ( /\ probe.fn = "validate_group_access"
       /\ probe.group.group_type \in {"job", "page"}
       /\ probe.group.project_id = "" )
     => /\ ~probe.result
        /\ <<probe.group.project_id>> \notin probe.membership
  /\ ( /\ probe.fn = "can_user_access_group"
       /\ Head(probe.group_name) = "job" )
     => ~probe.result

C15_Witness ==
  /\ probe.fn = "validate_group_access"
  /\ probe.group.group_name = <<"job", "42">>
  /\ probe.group.project_id = ""
  /\ probe.user_id = 7
  /\ ~probe.result

\* C16: for a job, project_job, page or project_page target that carries a
\* project_id, every membership check is made against that project_id and
\* access is what the collaborator answers for it
C16_MembershipOnCarriedProject ==
  ( /\ probe.fn = "validate_group_access"
    /\ probe.group.group_type \in {"job", "project_job", "page", "project_page"}
    /\ probe.group.project_id # "" )
  => /\ probe.membership = {<<probe.group.project_id>>}
     /\ probe.result = check_project_member(probe.user_id, probe.group.project_id)

\* C17: a user target is accessible to u exactly when its entity id is an
\* integer literal whose value is u, and the user_access permission passes
\* for every target that is not of type user
C17_UserAccess ==
  /\ ( /\ probe.fn = "validate_group_access"
       /\ probe.group.group_type = "user" )
     => LET X == probe.group.entity_id
        IN  probe.result = ( \/ X = <<"3">> /\ probe.user_id = 3
                             \/ X \in { <<"7">>, <<"07">> } /\ probe.user_id = 7 )
  /\ ( /\ probe.fn = "validate_group_access"
       /\ probe.group.group_type # "user" )
     => probe.user_access

C17_Witness ==
  /\ probe.fn = "validate_group_access"
  /\ probe.group.group_type = "user"
  /\ probe.group.entity_id = <<"07">>
  /\ probe.user_id = 7
  /\ probe.result

\* C18: compute_groups_for_event returns the user group, then the two project
\* groups iff project_id is present, then the two job groups iff task_id is
\* present, then the two workspace groups iff workspace_id is present, and
\* nothing else: the result is a function of these four arguments alone, and
\* a page_id adds no group
C18_GroupsExact ==
  probe.fn = "compute_groups_for_event"
  => LET u == StrOf(probe.user_id)
         p == probe.project_id
         t == probe.task_id
         w == probe.workspace_id
         names == [i \in 1..Len(probe.result) |-> probe.result[i].group_name]
     IN  /\ names = << <<"user", u>> >>
                    \o (IF p # "" THEN << <<"project", p>>, <<"project", p, "user", u>> >>
                                  ELSE << >>)
                    \o (IF t # "" THEN << <<"job", t>>, <<"project", p, "job", t>> >>
                                  ELSE << >>)
                    \o (IF w # "" THEN << <<"workspace", w>>, <<"workspace", w, "user", u>> >>
                                  ELSE << >>)
         /\ (t = "t1" /\ p = "p1" /\ probe.user_id = 7 /\ w = "")
            => names = << <<"user", "7">>, <<"project", "p1">>,
                          <<"project", "p1", "user", "7">>, <<"job", "t1">>,
                          <<"project", "p1", "job", "t1">> >>

C18_Witness ==
  /\ probe.fn = "compute_groups_for_event"
  /\ probe.task_id = "t1" /\ probe.project_id = "p1" /\ probe.user_id = 7
  /\ probe.workspace_id = "" /\ probe.page_id = "5"
  /\ probe.event_type = "NOTIFICATION"
  /\ Len(probe.result) = 5

\* C19: from_dict(to_dict(e)) equals e for every envelope e
C19_RoundTrip ==
  probe.fn = "from_dict" => probe.result = probe.envelope

C21_StepsForward ==
  [][\A w \in PipeWorkers :
        ( /\ Processing(w)
          /\ wpc'[w] \in ProcessingPcs
          /\ wloc'[w].ws # wloc[w].ws )
        => StepRank(wloc'[w].ws.pipeline_step) >= StepRank(wloc[w].ws.pipeline_step)]_vars

\* C22: every change of the workspace's pipeline_state is idle -> running,
\* failed -> running, running -> succeeded, running -> failed or
\* running -> canceled
C22_StateTransitions ==
  [][ws'.pipeline_state # ws.pipeline_state
       => <<ws.pipeline_state, ws'.pipeline_state>> \in
             { <<"idle", "running">>, <<"failed", "running">>,
               <<"running", "succeeded">>, <<"running", "failed">>,
               <<"running", "canceled">> }]_vars

\* C23: a connection whose authentication failed is closed with code 4403,
\* is in no group, was never accepted or sent a hello, and its disconnect
\* calls neither group_discard nor srem
C23_RejectedBeforeJoin ==
  \A s \in Sessions :
     (sessions[s].state \in {"closed", "gone"} /\ sessions[s].user = NoneVal)
        => /\ sessions[s].close_code = 4403
           /\ ~sessions[s].accepted
           /\ ~sessions[s].hello
           /\ \A g \in GroupNames : s \notin subs[g]
           /\ sessions[s].group_memberships = {}
           /\ sessions[s].discards = {}

\* a rejected connection has been disconnected while another session is
\* joined to a group
C23_Witness ==
  \E s, o \in Sessions :
     /\ sessions[s].state = "gone"
     /\ sessions[s].user = NoneVal
     /\ sessions[s].close_code = 4403
     /\ sessions[o].state = "open"
     /\ \E g \in GroupNames : o \in subs[g]

\* C24: a run of process_page_region that is over has emitted TASK_STARTED,
\* then TASK_PROGRESS, then exactly one of TASK_COMPLETED and TASK_FAILED, and
\* has left the page FINISHED exactly when that event is TASK_COMPLETED and
\* FAILED exactly when it is TASK_FAILED
C24_EventTriad ==
  [][(region.pc \notin {"returned", "raised"} /\ region'.pc \in {"returned", "raised"})
       => /\ Len(region'.events) = 3
          /\ region'.events[1] = "TASK_STARTED"
          /\ region'.events[2] = "TASK_PROGRESS"
          /\ region'.events[3] \in {"TASK_COMPLETED", "TASK_FAILED"}
          /\ page'.extract_status = "finished" <=> region'.events[3] = "TASK_COMPLETED"
          /\ page'.extract_status = "failed" <=> region'.events[3] = "TASK_FAILED"]_vars

\* C25: cancel_region_analysis writes CANCELED only over a page that is
\* QUEUED or PROCESSING at the moment of the write
C25_CancelOnlyCancellable ==
  [][(ppc.cancel = "write" /\ ppc'.cancel # "write")
       => page.extract_status \in {"queued", "processing"}]_vars

\* C26: when a run of process_pending_workspaces is over, every workspace of
\* its batch has been processed, whatever failed for the others
C26_BatchGoesOn ==
  batch.pc \in {"done", "raised"}
     => \A k \in BatchItems : batch.rows[k] \in {"succeeded", "failed"} /\ batch.i = BatchSize

\* C27: total_published = successful_publishes + failed_publishes, and every
\* step changes the counters by exactly the publish calls that complete in it
\* (publish_event_async leaving its retry loop, publish_event_sync returning),
\* one count each under the outcome the call reports: a retried attempt and a
\* sleep count nothing, so the total is the number of completed calls
C27_CountedOnce ==
  [][LET Finishing == {c \in Callers \cup Publishers :
                          pc[c] \in {"attempt", "publish"} /\ pc'[c] = "done"}
         Reported(c) == IF pc[c] = "attempt" THEN call'[c].success ELSE call'[c].dispatched
     IN  /\ stats.total_published = stats.successful_publishes + stats.failed_publishes
         /\ stats'.total_published = stats.total_published + Cardinality(Finishing)
         /\ stats'.successful_publishes =
               stats.successful_publishes + Cardinality({c \in Finishing : Reported(c)})
         /\ stats'.failed_publishes =
               stats.failed_publishes + Cardinality({c \in Finishing : ~Reported(c)})
         /\ \A c \in Finishing : call'[c].counted = 1]_vars

\* two completed calls, one counted as failed and one as successful, and the
\* successful one took more than one attempt
C27_Witness ==
  /\ stats.total_published = 2
  /\ stats.successful_publishes = 1
  /\ stats.failed_publishes = 1
  /\ \E c \in Publishers :
        /\ pc[c] = "done"
        /\ call[c].op = "publish_event_async"
        /\ call[c].retry_count > 0
        /\ call[c].attempts > 1
        /\ call[c].success
        /\ call[c].counted = 1

\* C28: every stored JobStatus.pct is an integer in 0..100, and an apply that
\* writes the row of its task from a payload with no number under
\* pipeline_progress or progress stores pct = 0
C28_PctInRange ==
  [][/\ \A t \in Tasks : RowExists(t) => jobStatus[t].pct \in 0..100
     /\ \A t \in Tasks : RowExists(t)' => jobStatus'[t].pct \in 0..100
     /\ \A c \in Callers :
          ( /\ pc[c] = "txn"
            /\ pc'[c] # "txn"
            /\ jobStatus'[call[c].task_id] # jobStatus[call[c].task_id]
            /\ call[c].payload["pipeline_progress"].t \notin {"int", "float"}
            /\ call[c].payload["progress"].t \notin {"int", "float"} )
          => jobStatus'[call[c].task_id].pct = 0]_vars

\* a row was overwritten by an apply whose payload carries progress = -5, and
\* holds pct = 0
C28_Witness ==
  \E c \in Appliers :
     /\ pc[c] \in {"publish", "done"}
     /\ call[c].op = "workspace_event"
     /\ call[c].persisted
     /\ ~call[c].created
     /\ call[c].payload["progress"] = PyInt(-5)
     /\ jobStatus[call[c].task_id].seq = call[c].seq
     /\ jobStatus[call[c].task_id].pct = 0

\* C29: a publish_event_async call that reports success has had at least one
\* of its channel-layer sends succeed: it does not report success when every
\* send it made failed
C29_SuccessNeedsDelivery ==
  \A c \in Publishers :
     ( /\ pc[c] = "done"
       /\ call[c].op = "publish_event_async"
       /\ call[c].success )
     => /\ call[c].sends > 0
        /\ ~call[c].allThrew

\* C30: when publish_event_async has fanned an envelope with sequence number
\* s out to the groups of its task (a send of it went through), the JobStatus
\* row of that task exists and holds seq >= s
C30_RowCoversFanOut ==
  \A c \in Publishers :
     ( /\ pc[c] = "done"
       /\ call[c].op = "publish_event_async"
       /\ call[c].success
       /\ call[c].sends > 0
       /\ ~call[c].allThrew )
     => /\ RowExists(call[c].task_id)
        /\ jobStatus[call[c].task_id].seq >= call[c].seq

\* C31: an apply of a NOTIFICATION or TASK_QUEUED event for a task whose
\* JobStatus row is in a terminal state (SUCCESS or FAILURE) leaves the state
\* of that row unchanged
C31_TerminalStateKept ==
  [][\A c \in Callers :
        ( /\ pc[c] = "txn"
          /\ pc'[c] # "txn"
          /\ call[c].event_type \in {"NOTIFICATION", "TASK_QUEUED"}
          /\ RowExists(call[c].task_id)
          /\ jobStatus[call[c].task_id].state \in {"SUCCESS", "FAILURE"} )
        => jobStatus'[call[c].task_id].state = jobStatus[call[c].task_id].state]_vars

\* C32: once the counter store answers again, an apply that holds the newest
\* counter value of its task is persisted, also when the row of the task was
\* written with a time-based fallback number while the store was unavailable
C32_RecoveredApplyPersists ==
  [][\A c \in Callers :
        ( /\ pc[c] = "txn"
          /\ pc'[c] # "txn"
          /\ ~call[c].fallback
          /\ call[c].seq = counter[call[c].task_id]
          /\ RowExists(call[c].task_id)
          /\ jobStatus[call[c].task_id].seq \notin Range(issued[call[c].task_id]) )
        => /\ call'[c].persisted
           /\ jobStatus'[call[c].task_id].seq = call[c].seq]_vars

\* C33: a user is in the tracked member set of a group exactly when at least
\* one live session of that user is joined to the group
C33_TrackedIffJoined ==
  \A g \in GroupNames, u \in Users :
     u \in tracked[g]
        <=> \E s \in Sessions : /\ sessions[s].state = "open"
                                /\ sessions[s].user = u
                                /\ s \in subs[g]

\* C34: within one run of process_workspace that does not fail, the
\* pipeline_progress the run stores never decreases from one mark_step to the
\* next, starting from the 1 of the claim, and stays within 0..100
C34_ProgressMonotone ==
  [][\A w \in PipeWorkers :
        ( /\ Processing(w)
          /\ wpc[w] = "open" => wloc[w].ws.pipeline_progress = 1
          /\ wloc'[w].ws # wloc[w].ws
          /\ wloc'[w].ws.pipeline_state \in {"running", "succeeded"}
          /\ wpc'[w] \in ProcessingPcs )
        => /\ wloc'[w].ws.pipeline_progress >= wloc[w].ws.pipeline_progress
           /\ wloc'[w].ws.pipeline_progress \in 0..100]_vars

C36_RetriesEnd ==
  <>[](batch.pc \in {"done", "raised"})

\* C37: concurrent runs of sync_workspace_tree_tto for a workspace without
\* sync_id create at most one remote project
C37_OneRemoteProject ==
  sync.created <= 1 /\ sync.remote <= 1

====
